---- MODULE Spec2Model ----
(***************************************************************************)
(* A model of DevMan's conversation store (src/context.rs), agent          *)
(* turn-loop (src/agent.rs) and cron next-run computation (src/cron.rs).   *)
(*                                                                         *)
(* Strings.  A Rust String is modelled as a sequence of runs.  A run is    *)
(* n characters of w bytes each; ws says whether they are whitespace and   *)
(* lit, when not "", is the program literal the run was written from.      *)
(* Byte length, char boundaries, byte slicing and trim() are computed on   *)
(* the runs, so a slice that would cut a multi-byte character is seen.     *)
(* Only the whitespace at the two ends of a literal is marked as such:     *)
(* trim() looks at nothing else.                                           *)
(*                                                                         *)
(* The filesystem is taken to be reliable: ContextManager::save succeeds.  *)
(* The one write that may fail is CronScheduler::save after a cron tick of *)
(* the daemon, whose error leaves the serve loop.                          *)
(***************************************************************************)
EXTENDS Integers, Sequences, FiniteSets, TLC

VARIABLES
    messages,             \* ContextManager.messages
    total_input_tokens,   \* ContextManager.total_input_tokens
    total_output_tokens,  \* ContextManager.total_output_tokens
    last_op,              \* what the last operation on the store was, and what it saw
    disk,                 \* the store as last written to persist_path
    max_turns,            \* AgentLoop.max_turns
    pc,                   \* where run_turn is: idle, call, tools, returned, panicked
    turns,                \* run_turn's turns
    total_usage,          \* run_turn's total_usage
    pending,              \* the tool calls of the reply not yet executed
    result,               \* what run_turn returned last
    obs,                  \* what has been observed of the turn in progress
    now,                  \* Utc::now()
    job_request,          \* the schedule of the job handed to the scheduler
    jobs,                 \* CronScheduler.jobs
    computed,             \* the last call of compute_next_run and what it gave
    last_tick,            \* the number of tick() calls and what the last one returned
    fs,                   \* the filesystem: the directories and the files that exist
    storage_op,           \* the last TaskStorage call, what it returned and what it found
    config,               \* config.toml: telegram.bots
    memory,               \* the memory root: INDEX.md and the files under it
    restart_requested,    \* RESTART_REQUESTED
    bot_op,               \* the last assign_bot or remove_bot call and what it returned
    all_bots,             \* the BotInstances of the running daemon
    chat_files,           \* the conversations saved under the chats directories
    serve,                \* where the daemon's main loop is, and what it holds
    client,               \* AnthropicClient: api_key and retried_auth
    credential,           \* what the credential store gives when it is read
    send_op,              \* the last send_message call: its requests and its outcome
    stream,               \* the SSE stream of the call and what has been built from it
    auth,                 \* the credential sources and what anthropic_api_key gave
    orchestrator,         \* Orchestrator: agents, the result channel, the tasks spawned
    shared,               \* the state files, and the activities that read and write them
    poller,               \* the poll tick of the daemon: consecutive_poll_errors, the last round
    frontend              \* the updates the frontend holds, and the daemon that polls for them

ctxVars == <<messages, total_input_tokens, total_output_tokens>>

agentVars == <<disk, max_turns, pc, turns, total_usage, pending, result, obs>>

cronVars == <<now, job_request, jobs, computed, last_tick>>

storageVars == <<fs, storage_op>>

\* the variables of the parts other than the store, the agent and the scheduler
botVars == <<config, memory, restart_requested, bot_op>>

serveVars == <<all_bots, chat_files, serve>>

clientVars == <<client, credential, send_op, stream>>

auxVars == <<auth, orchestrator, shared, poller, frontend>>

restVars == <<storageVars, botVars, serveVars, clientVars, auxVars>>

vars == <<ctxVars, last_op, agentVars, cronVars, restVars>>

\* TaskStorage.root, and the filesystem before anything is stored
StorageRoot == <<"home", "storage">>

StorageIdle ==
    /\ fs = [dirs |-> {<<>>, <<"home">>, StorageRoot}, files |-> {}]
    /\ storage_op = [n |-> 0, op |-> "none"]

\* the parts other than the store, the agent and the scheduler are not running
\* no scoped bot, an empty memory root, and no daemon
BotsIdle ==
    /\ config = <<>>
    /\ memory = [index |-> <<>>, files |-> {}]
    /\ restart_requested = FALSE
    /\ bot_op = [n |-> 0, op |-> "none"]

\* the daemon before its first launch; allowed_users is telegram.allowed_users of
\* the config
NoDaemon ==
    [pc |-> "none", launches |-> 0, rounds |-> 0, ticks |-> 0, bot |-> 0, updates |-> <<>>,
     chat |-> 0, context |-> [kind |-> "none"], tool_calls |-> 0,
     exit_code |-> [kind |-> "none"], why |-> "none", cron_saved |-> FALSE,
     interrupted |-> FALSE, allowed_users |-> <<>>,
     handled |-> [downloads |-> 0, typing |-> FALSE, llm_calls |-> 0,
                  result |-> [kind |-> "none"], reply |-> [kind |-> "none"],
                  cost |-> FALSE]]

ServeIdle ==
    /\ all_bots = <<>>
    /\ chat_files = <<>>
    /\ serve = NoDaemon

\* no stream
NoStream ==
    [state |-> "none", sent |-> <<>>, buffer |-> <<>>, current_blocks |-> <<>>,
     content |-> <<>>]

ClientIdle ==
    /\ client = [api_key |-> "", retried_auth |-> FALSE]
    /\ credential = [kind |-> "none"]
    /\ send_op = [n |-> 0, first |-> 0]
    /\ stream = NoStream

\* no credential resolved
NoAuth == [n |-> 0]

\* no orchestrator
NoOrchestrator == [on |-> FALSE]

\* no activity on the state files
NoSharing == [on |-> FALSE]

\* no poll tick yet
NoPoller ==
    [pc |-> "loop", consecutive_poll_errors |-> 0, rounds |-> 0,
     last |-> [e |-> 0, backoff |-> [kind |-> "none"], failed |-> {}]]

\* no frontend
NoFrontend == [on |-> FALSE]

AuxIdle ==
    /\ auth = NoAuth
    /\ orchestrator = NoOrchestrator
    /\ shared = NoSharing
    /\ poller = NoPoller
    /\ frontend = NoFrontend

RestIdle == StorageIdle /\ BotsIdle /\ ServeIdle /\ ClientIdle /\ AuxIdle

-----------------------------------------------------------------------------
(* Strings *)

Data(w, n, ws) == IF n = 0 THEN <<>> ELSE <<[lit |-> "", w |-> w, n |-> n, ws |-> ws]>>

Ascii(n) == Data(1, n, FALSE)

Ws(n) == Data(1, n, TRUE)

Lit(s, n) == <<[lit |-> s, w |-> 1, n |-> n, ws |-> FALSE]>>

\* a + b, adjacent data runs of one kind merged so that equal strings are equal values
Cat(a, b) ==
    IF a = <<>> THEN b
    ELSE IF b = <<>> THEN a
    ELSE LET x == a[Len(a)]
             y == b[1]
         IN  IF x.lit = "" /\ y.lit = "" /\ x.w = y.w /\ x.ws = y.ws
             THEN SubSeq(a, 1, Len(a) - 1) \o <<[x EXCEPT !.n = x.n + y.n]>> \o Tail(b)
             ELSE a \o b

RECURSIVE ByteLen(_)
\* str::len(): the length in bytes
ByteLen(s) == IF s = <<>> THEN 0 ELSE s[1].w * s[1].n + ByteLen(Tail(s))

RECURSIVE IsCharBoundary(_, _)
\* str::is_char_boundary(i)
IsCharBoundary(s, i) ==
    IF i = 0 THEN TRUE
    ELSE IF s = <<>> THEN FALSE
    ELSE LET b == s[1].w * s[1].n
         IN  IF i >= b THEN IsCharBoundary(Tail(s), i - b)
             ELSE i % s[1].w = 0

RECURSIVE BytePrefix(_, _)
\* &s[..i], for i a char boundary of s
BytePrefix(s, i) ==
    IF i = 0 \/ s = <<>> THEN <<>>
    ELSE LET b == s[1].w * s[1].n
         IN  IF i >= b THEN Cat(<<s[1]>>, BytePrefix(Tail(s), i - b))
             ELSE <<[s[1] EXCEPT !.n = i \div s[1].w, !.lit = ""]>>

RECURSIVE TrimStart(_)
TrimStart(s) == IF s # <<>> /\ s[1].ws THEN TrimStart(Tail(s)) ELSE s

RECURSIVE TrimEnd(_)
TrimEnd(s) == IF s # <<>> /\ s[Len(s)].ws THEN TrimEnd(SubSeq(s, 1, Len(s) - 1)) ELSE s

\* str::trim()
Trim(s) == TrimEnd(TrimStart(s))

\* the number of decimal digits of n: the length of format!("{}", n)
Digits(n) == IF n < 10 THEN 1 ELSE IF n < 100 THEN 2 ELSE IF n < 1000 THEN 3
             ELSE IF n < 10000 THEN 4 ELSE IF n < 100000 THEN 5 ELSE 6

Display(n) == Ascii(Digits(n))

-----------------------------------------------------------------------------
(* Messages and content blocks: src/types.rs *)

Text(text) == [type |-> "text", text |-> text]

Image == [type |-> "image"]

ToolUse(id, name, input) == [type |-> "tool_use", id |-> id, name |-> name, input |-> input]

\* is_error is Some(true) or None: add_tool_result never stores Some(false)
ToolResult(tool_use_id, content, is_error) ==
    [type |-> "tool_result", tool_use_id |-> tool_use_id, content |-> content,
     is_error |-> is_error]

Thinking(thinking) == [type |-> "thinking", thinking |-> thinking]

Message(role, content) == [role |-> role, content |-> content]

\* the tool names of the model, each with its length in bytes
ToolNameLen(name) ==
    CASE name = "shell" -> 5
      [] name = "read_file" -> 9
      [] name = "frobnicate" -> 10

ToolNameStr(name) == Lit(name, ToolNameLen(name))

-----------------------------------------------------------------------------
(* ContextManager: src/context.rs *)

PreviewLimit == 200

add_user_message(msgs, text) == Append(msgs, Message("user", <<Text(text)>>))

add_assistant_message(msgs, content) == Append(msgs, Message("assistant", content))

\* a store that keeps the results of the tools that succeeded only
add_tool_result_unless_error(msgs, tool_use_id, content, is_error) ==
    IF is_error THEN msgs
    ELSE Append(msgs, Message("user", <<ToolResult(tool_use_id, content, is_error)>>))

add_tool_result(msgs, tool_use_id, content, is_error) ==
    Append(msgs, Message("user", <<ToolResult(tool_use_id, content, is_error)>>))

\* the blocks of all messages, in order (flat_map)
RECURSIVE Blocks(_)
Blocks(msgs) == IF msgs = <<>> THEN <<>> ELSE msgs[1].content \o Blocks(Tail(msgs))

BlockBytes(c) ==
    CASE c.type = "text" -> ByteLen(c.text)
      [] c.type = "tool_use" -> ByteLen(c.input)
      [] c.type = "tool_result" -> ByteLen(c.content)
      [] c.type = "thinking" -> ByteLen(c.thinking)
      [] c.type = "image" -> 1000

RECURSIVE SumBytes(_)
SumBytes(blocks) == IF blocks = <<>> THEN 0 ELSE BlockBytes(blocks[1]) + SumBytes(Tail(blocks))

estimated_tokens(msgs) == SumBytes(Blocks(msgs)) \div 4

\* &content[..200] panics when byte 200 lies inside a character
SliceFails(s, i) == ~IsCharBoundary(s, i)

Preview(content) ==
    IF ByteLen(content) > PreviewLimit
    THEN Cat(BytePrefix(content, PreviewLimit), Lit("...", 3))
    ELSE content

RoleName(role) == IF role = "user" THEN Lit("User", 4) ELSE Lit("Assistant", 9)

\* what one block adds to recent_text
RecentLine(role, block) ==
    CASE block.type = "text" ->
            IF block.text = <<>> THEN <<>>
            ELSE Cat(Cat(Cat(RoleName(role), Cat(Lit(":", 1), Ws(1))), block.text), Ws(1))
      [] block.type = "tool_use" ->
            Cat(Cat(Cat(RoleName(role), Lit(": [used tool: ", 14)), ToolNameStr(block.name)),
                Cat(Lit("]", 1), Ws(1)))
      [] block.type = "tool_result" ->
            Cat(Cat(Cat(RoleName(role), Lit(": [tool result: ", 16)), Preview(block.content)),
                Cat(Lit("]", 1), Ws(1)))
      [] OTHER -> <<>>

RECURSIVE RecentOfBlocks(_, _)
RecentOfBlocks(role, blocks) ==
    IF blocks = <<>> THEN <<>>
    ELSE Cat(RecentLine(role, blocks[1]), RecentOfBlocks(role, Tail(blocks)))

RECURSIVE RecentText(_)
RecentText(msgs) ==
    IF msgs = <<>> THEN <<>>
    ELSE Cat(RecentOfBlocks(msgs[1].role, msgs[1].content), RecentText(Tail(msgs)))

\* messages[recent_start..], recent_start = len.saturating_sub(keep_recent)
RecentMessages(msgs, keep_recent) ==
    LET recent_start == IF Len(msgs) >= keep_recent THEN Len(msgs) - keep_recent ELSE 0
    IN  SubSeq(msgs, recent_start + 1, Len(msgs))

Summary(msgs, tin, tout, keep_recent) ==
    Cat(Lit("[Conversation compacted ", 24),
    Cat(<<[lit |-> "em dash", w |-> 3, n |-> 1, ws |-> FALSE]>>,
    Cat(Ws(1),
    Cat(Display(Len(msgs)),
    Cat(Lit(" messages removed. ", 19),
    Cat(Display(tin),
    Cat(Lit(" input tokens, ", 15),
    Cat(Display(tout),
    Cat(Lit(" output tokens used so far.]\nRecent context:", 44),
    Cat(Ws(1),
        Trim(RecentText(RecentMessages(msgs, keep_recent)))))))))))))

Acknowledgement ==
    Lit("Understood, I have the context from our conversation so far. How can I help?", 76)

\* compact returns early and changes nothing
CompactSkips(msgs, keep_recent) == Len(msgs) <= keep_recent + 1

\* compact panics while it builds the preview of a tool result
CompactPanics(msgs, keep_recent) ==
    /\ ~CompactSkips(msgs, keep_recent)
    /\ \E i \in 1..Len(Blocks(RecentMessages(msgs, keep_recent))) :
          LET b == Blocks(RecentMessages(msgs, keep_recent))[i]
          IN  /\ b.type = "tool_result"
              /\ ByteLen(b.content) > PreviewLimit
              /\ SliceFails(b.content, PreviewLimit)

\* a compaction that keeps the recent messages behind the two seed messages
compact_keeping_recent(msgs, tin, tout, keep_recent) ==
    IF CompactSkips(msgs, keep_recent) THEN msgs
    ELSE << Message("user", <<Text(Summary(msgs, tin, tout, keep_recent))>>),
            Message("assistant", <<Text(Acknowledgement)>>) >>
         \o RecentMessages(msgs, keep_recent)

\* the message list compact leaves, when it does not panic
compact(msgs, tin, tout, keep_recent) ==
    IF CompactSkips(msgs, keep_recent) THEN msgs
    ELSE << Message("user", <<Text(Summary(msgs, tin, tout, keep_recent))>>),
            Message("assistant", <<Text(Acknowledgement)>>) >>

-----------------------------------------------------------------------------
(* Instants: DateTime<Utc> as the day since 1970-01-01 and the millisecond  *)
(* of that day; Option<DateTime<Utc>> as None or Some(at)                   *)

MsPerMinute == 60 * 1000

MinutesPerDay == 24 * 60

MsPerDay == MinutesPerDay * MsPerMinute

Instant(day, ms) == [day |-> day, ms |-> ms]

Before(a, b) == a.day < b.day \/ (a.day = b.day /\ a.ms < b.ms)

\* a + Duration::milliseconds(n)
PlusMs(a, n) == Instant(a.day + ((a.ms + n) \div MsPerDay), (a.ms + n) % MsPerDay)

\* a + Duration::days(n)
PlusDays(a, n) == Instant(a.day + n, a.ms)

\* (a - b).num_milliseconds()
MsBetween(a, b) == (a.day - b.day) * MsPerDay + (a.ms - b.ms)

None == [kind |-> "none"]

Some(at) == [kind |-> "some", at |-> at]

\* the call did not return: the thread panicked
Panic == [kind |-> "panic"]

\* the civil date of a day (proleptic Gregorian, as chrono's Datelike)
Civil(day) ==
    LET z == day + 719468
        era == z \div 146097
        doe == z - era * 146097
        yoe == (doe - (doe \div 1460) + (doe \div 36524) - (doe \div 146096)) \div 365
        doy == doe - (365 * yoe + (yoe \div 4) - (yoe \div 100))
        mp == (5 * doy + 2) \div 153
        m == IF mp < 10 THEN mp + 3 ELSE mp - 9
    IN  [year |-> yoe + era * 400 + (IF m <= 2 THEN 1 ELSE 0),
         month |-> m,
         day |-> doy - ((153 * mp + 2) \div 5) + 1]

\* the day of a civil date
DayOf(year, month, dom) ==
    LET y == IF month <= 2 THEN year - 1 ELSE year
        era == y \div 400
        yoe == y - era * 400
        doy == ((153 * (IF month > 2 THEN month - 3 ELSE month + 9) + 2) \div 5) + dom - 1
        doe == yoe * 365 + (yoe \div 4) - (yoe \div 100) + doy
    IN  era * 146097 + doe - 719468

\* the instant year-month-dom hour:minute:00 plus ms milliseconds
Utc(year, month, dom, hour, minute, ms) ==
    Instant(DayOf(year, month, dom), (hour * 60 + minute) * MsPerMinute + ms)

\* the weekday counted from Monday
num_days_from_monday(day) == (day + 3) % 7

\* weekday().num_days_from_sunday(): 1970-01-01 was a Thursday
num_days_from_sunday(day) == (day + 4) % 7

-----------------------------------------------------------------------------
(* Schedules and compute_next_run: src/cron.rs *)

\* a u64 is written n, or 2^64 - n for the values at the top of its range
U64(n) == [top |-> FALSE, n |-> n]

U64FromTop(n) == [top |-> TRUE, n |-> n]

\* `x as i64`: the values from 2^63 up wrap to x - 2^64
AsI64(x) == IF x.top THEN 0 - x.n ELSE x.n

\* i64 division, which truncates toward zero
TruncDiv(a, b) ==
    LET q == (IF a < 0 THEN 0 - a ELSE a) \div (IF b < 0 THEN 0 - b ELSE b)
    IN  IF (a < 0) # (b < 0) THEN 0 - q ELSE q

At(at) == [type |-> "at", at |-> at]

Every(interval_ms, anchor) ==
    [type |-> "every", interval_ms |-> interval_ms, anchor |-> anchor]

Cron(expr) == [type |-> "cron", expr |-> expr]

\* A cron expression is the sequence of its whitespace-separated fields, a field the
\* sequence of its comma-separated parts, a part "*", "*/n", a number n, or text
\* that is none of these.
Star == [k |-> "star", n |-> 0]

Step(n) == [k |-> "step", n |-> n]

Num(n) == [k |-> "num", n |-> n]

Other == [k |-> "other", n |-> 0]

\* what one part adds to `values`
PartValues(part, min, max) ==
    CASE part.k = "step" /\ part.n > 0 -> {v \in min..max : (v - min) % part.n = 0}
      [] part.k = "num" /\ part.n >= min /\ part.n <= max -> {part.n}
      [] OTHER -> {}

\* a parser that takes "*" for text it does not know
parse_cron_field_without_star(field, min, max) ==
    UNION {PartValues(field[i], min, max) : i \in 1..Len(field)}

\* parse_cron_field: sorted and without duplicates, the vector is the set of its values
parse_cron_field(field, min, max) ==
    IF \E i \in 1..Len(field) : field[i].k = "star"
    THEN min..max
    ELSE UNION {PartValues(field[i], min, max) : i \in 1..Len(field)}

Least(S) == CHOOSE x \in S : \A y \in S : x <= y

\* the days cron_next searches ahead
SearchDays == 366

\* the minutes of a day, counted from 00:00, whose hour and minute are in the fields
MinutesOfDay(hours, minutes) == {h * 60 + m : h \in hours, m \in minutes}

\* the day's date and weekday are in the fields
DayMatches(day, doms, months, dows) ==
    /\ Civil(day).month \in months
    /\ Civil(day).day \in doms
    /\ num_days_from_sunday(day) \in dows

\* cron_next: the first candidate of the scan, which goes minute by minute from
\* start while candidate < limit
cron_next(expr, after) ==
    IF Len(expr) # 5 THEN None
    ELSE LET minutes == parse_cron_field(expr[1], 0, 59)
             hours == parse_cron_field(expr[2], 0, 23)
             doms == parse_cron_field(expr[3], 1, 31)
             months == parse_cron_field(expr[4], 1, 12)
             dows == parse_cron_field(expr[5], 0, 6)
         IN  IF minutes = {} \/ hours = {} \/ doms = {} \/ months = {} \/ dows = {}
             THEN None
             ELSE LET later == PlusMs(after, MsPerMinute)
                      start == Instant(later.day,
                                       (later.ms \div MsPerMinute) * MsPerMinute)
                      limit == PlusDays(after, SearchDays)
                      Scanned(d, x) ==
                          LET candidate == Instant(d, x * MsPerMinute)
                          IN  ~Before(candidate, start) /\ Before(candidate, limit)
                      On(d) == {x \in MinutesOfDay(hours, minutes) : Scanned(d, x)}
                      days == {d \in start.day..limit.day :
                                  /\ DayMatches(d, doms, months, dows)
                                  /\ (start.day < d /\ d < limit.day) \/ On(d) # {}}
                  IN  IF days = {} THEN None
                      ELSE Some(Instant(Least(days), Least(On(Least(days))) * MsPerMinute))

\* compute_next_run, and Panic where the division by interval_ms divides by zero
compute_next_run(schedule, after) ==
    CASE schedule.type = "at" ->
            IF Before(after, schedule.at) THEN Some(schedule.at) ELSE None
      [] schedule.type = "every" ->
            LET base == IF schedule.anchor = None THEN after ELSE schedule.anchor.at
                interval == AsI64(schedule.interval_ms)
            IN  IF Before(after, base) THEN Some(base)
                ELSE IF interval = 0 THEN Panic
                ELSE LET elapsed == MsBetween(after, base)
                         periods == TruncDiv(elapsed, interval) + 1
                     IN  Some(PlusMs(base, periods * interval))
      [] schedule.type = "cron" -> cron_next(schedule.expr, after)

CronJob(id, schedule, next_run) ==
    [id |-> id, schedule |-> schedule, enabled |-> TRUE, last_run |-> None,
     next_run |-> next_run]

\* computed: the operation that called compute_next_run last, its arguments and what
\* it gave
NoComputed == [op |-> "none", result |-> None]

Computed(op, schedule, after) ==
    [op |-> op, schedule |-> schedule, after |-> after,
     result |-> compute_next_run(schedule, after)]

\* last_tick: the calls of the scheduler so far, the tick() calls among them,
\* whether the last call was a tick() that returned, the jobs it found and the due
\* list it returned, and the ids of the one-shot jobs the ticks have returned
\* since the last add or update
NoTick ==
    [calls |-> 0, n |-> 0, fresh |-> FALSE, before |-> <<>>, due |-> <<>>,
     at_returns |-> <<>>]

\* a tick that fires disabled jobs too
IsDueWhetherEnabled(job, t) ==
    /\ job.next_run # None
    /\ ~Before(t, job.next_run.at)

\* the job is enabled and its next_run is not after t
IsDue(job, t) ==
    /\ job.enabled
    /\ job.next_run # None
    /\ ~Before(t, job.next_run.at)

\* a loop that reschedules nothing
TickJobIdle(job, t) == job

\* what the loop of tick makes of one job
TickJob(job, t) ==
    IF IsDue(job, t)
    THEN [job EXCEPT !.last_run = Some(t),
                     !.next_run = compute_next_run(job.schedule, t)]
    ELSE job

\* a scheduler that drops no job
RetainedAlways(job) == TRUE

\* the test of `retain`: a one-shot job stays while it has a next run or has not run
Retained(job) ==
    job.schedule.type = "at" => (job.next_run # None \/ job.last_run = None)

\* the due jobs for which tick calls compute_next_run, up to the first that panics
TickComputes(js, t) ==
    LET dues == {i \in 1..Len(js) : IsDue(js[i], t)}
        bad == {i \in dues : compute_next_run(js[i].schedule, t) = Panic}
    IN  IF bad = {} THEN dues ELSE {i \in dues : \A b \in bad : i <= b}

\* no scheduler is running
CronIdle ==
    /\ now = Instant(0, 0)
    /\ job_request = At(Instant(0, 0))
    /\ jobs = <<>>
    /\ computed = NoComputed
    /\ last_tick = NoTick

-----------------------------------------------------------------------------
(* AgentLoop: src/agent.rs *)

CompactThreshold == 80000

DisplayLimit == 200

ProactiveKeep == 6

ReactiveKeep == 4

Usage(i, o) == [input_tokens |-> i, output_tokens |-> o]

AddUsage(u, v) ==
    Usage(u.input_tokens + v.input_tokens, u.output_tokens + v.output_tokens)

NoResult == [kind |-> "none", text |-> <<>>, usage |-> Usage(0, 0)]

Ok(text, usage) == [kind |-> "ok", text |-> text, usage |-> usage]

Err == [kind |-> "err", text |-> <<>>, usage |-> Usage(0, 0)]

TurnLimitText == Lit("[Turn limit reached]", 20)

\* obs: of the whole run, the run_turn calls (runs), the LLM calls (total_calls) and
\* the tool ids handed out (ids); of the turn in progress, the LLM calls (calls), the
\* replies and the sum of their usage, whether every reply held a tool use
\* (all_tools), the context-size errors (ctx_errors), the text of the reply without
\* tool use (final), the estimate the last threshold check saw (checked) and the
\* compactions it ran (compacted), and the last tool call executed for the last
\* reply (tool)
NoObs == [runs |-> 0, total_calls |-> 0, ids |-> 0, calls |-> 0, replies |-> 0,
          usage |-> Usage(0, 0), all_tools |-> TRUE, ctx_errors |-> 0, final |-> <<>>,
          checked |-> 0, compacted |-> 0, tool |-> [id |-> 0, failed |-> FALSE]]

Snapshot(msgs, tin, tout) ==
    [messages |-> msgs, total_input_tokens |-> tin, total_output_tokens |-> tout]

\* no agent loop is running
AgentIdle ==
    /\ disk = Snapshot(<<>>, 0, 0)
    /\ max_turns = 0
    /\ pc = "idle"
    /\ turns = 0
    /\ total_usage = Usage(0, 0)
    /\ pending = <<>>
    /\ result = NoResult
    /\ obs = NoObs

\* the ToolUse blocks of a reply, the last first
RECURSIVE ToolCallsBackwards(_)
ToolCallsBackwards(content) ==
    IF content = <<>> THEN <<>>
    ELSE IF content[1].type = "tool_use"
         THEN ToolCallsBackwards(Tail(content)) \o <<content[1]>>
         ELSE ToolCallsBackwards(Tail(content))

\* the (id, name, input) of the ToolUse blocks of a reply, in order
RECURSIVE ToolCalls(_)
ToolCalls(content) ==
    IF content = <<>> THEN <<>>
    ELSE IF content[1].type = "tool_use"
         THEN <<content[1]>> \o ToolCalls(Tail(content))
         ELSE ToolCalls(Tail(content))

\* the Text blocks of a reply, joined
RECURSIVE ReplyText(_)
ReplyText(content) ==
    IF content = <<>> THEN <<>>
    ELSE IF content[1].type = "text"
         THEN Cat(content[1].text, ReplyText(Tail(content)))
         ELSE ReplyText(Tail(content))

\* the error text holds one of the context-size signals
IsContextError(err) == "tool_use_id" \in err \/ "too long" \in err \/ "token" \in err

\* the limit tested one turn late
TurnLimitLate(t) == t > max_turns + 1

TurnLimitReached(t) == t > max_turns

\* the names execute_tool matches
DispatchTable == {"shell", "read_file"}

\* execute_tool: the tool's own outcome, or the error for a name it does not match
execute_tool(name, outcome) ==
    IF name \in DispatchTable THEN outcome
    ELSE [ok |-> FALSE, text |-> Cat(Lit("Unknown tool: ", 14), ToolNameStr(name))]

\* (content, is_error) of a tool outcome
ToolContent(r) == IF r.ok THEN r.text ELSE Cat(Lit("Error: ", 7), r.text)

\* the top of the loop, from `turns += 1` to the call of the client
LoopHead(msgs, t, usage, o) ==
    IF TurnLimitReached(t + 1)
    THEN /\ pc' = "returned"
         /\ result' = Ok(TurnLimitText, usage)
         /\ messages' = msgs
         /\ turns' = t + 1
         /\ total_usage' = usage
         /\ obs' = o
    ELSE LET over == estimated_tokens(msgs) > CompactThreshold
         IN  /\ turns' = t + 1
             /\ total_usage' = usage
             /\ result' = result
             /\ IF over /\ CompactPanics(msgs, ProactiveKeep)
                THEN /\ pc' = "panicked"
                     /\ messages' = msgs
                     /\ obs' = o
                ELSE /\ pc' = "call"
                     /\ messages' = IF over
                                    THEN compact(msgs, total_input_tokens,
                                                 total_output_tokens, ProactiveKeep)
                                    ELSE msgs
                     /\ obs' = [o EXCEPT !.calls = @ + 1, !.total_calls = @ + 1,
                                         !.checked = estimated_tokens(msgs),
                                         !.compacted = IF over THEN 1 ELSE 0]

\* run_turn calls in one run
MaxRuns == 2

\* LLM calls in one run
MaxCalls == 4

\* the largest max_turns configured
MaxTurnLimit == 2

\* a text of 100 000 estimated tokens
BigText == Ascii(5 * CompactThreshold)

TurnTexts == {Ascii(2), BigText}

\* what the LLM may answer; its tool-use ids are fresh
Replies(id) ==
    { [content |-> <<Thinking(Ascii(40)), Text(Ascii(5)), Text(Ascii(3))>>,
       usage |-> Usage(3, 1)],
      [content |-> <<Text(Ascii(3)), ToolUse(id + 1, "read_file", Ascii(16)),
                     ToolUse(id + 2, "frobnicate", Ascii(2))>>,
       usage |-> Usage(5, 2)] }

\* how a tool of the dispatch table may end: an output, a short error, and an error
\* whose text "Error: failed to read <70 three-byte characters>: <the io error>" has
\* byte 200 inside a character
ToolOutcomes ==
    { [ok |-> TRUE, text |-> Ascii(250)],
      [ok |-> FALSE, text |-> Ascii(20)],
      [ok |-> FALSE,
       text |-> Cat(Cat(Lit("failed to read ", 15), Data(3, 70, FALSE)), Ascii(27))] }

\* the error texts of the client, by the signals they hold
ClientErrors == {{"token"}, {}}

\* a conversation of 8 messages left by earlier turns
History8 ==
    << Message("user", <<Text(Ascii(5))>>),
       Message("assistant", <<ToolUse(101, "read_file", Ascii(16))>>),
       Message("user", <<ToolResult(101, Ascii(250), FALSE)>>),
       Message("assistant", <<Text(Ascii(8))>>),
       Message("user", <<Text(Ascii(5))>>),
       Message("assistant", <<Text(Ascii(8))>>),
       Message("user", <<Text(Ascii(5))>>),
       Message("assistant", <<Text(Ascii(8))>>) >>

\* last_op: the call, its keep_recent, the length and the estimate it found, and
\* the number of calls so far
NoOp == [op |-> "none", keep |-> 0, len |-> 0, tokens |-> 0, n |-> 0]

\* the store is loaded from persist_path and an AgentLoop is built around it
AgentInit ==
    /\ messages \in {<<>>, History8}
    /\ total_input_tokens = 0
    /\ total_output_tokens = 0
    /\ last_op = NoOp
    /\ disk = Snapshot(messages, 0, 0)
    /\ max_turns \in 0..MaxTurnLimit
    /\ pc = "idle"
    /\ turns = 0
    /\ total_usage = Usage(0, 0)
    /\ pending = <<>>
    /\ result = NoResult
    /\ obs = NoObs
    /\ CronIdle
    /\ RestIdle

\* run_turn(user_message), up to its first call of the client
StartTurn ==
    /\ pc \in {"idle", "returned"}
    /\ obs.runs < MaxRuns
    /\ obs.total_calls + max_turns <= MaxCalls
    /\ \E user_message \in TurnTexts :
          LoopHead(add_user_message(messages, user_message), 0, Usage(0, 0),
                   [obs EXCEPT !.runs = @ + 1, !.calls = 0, !.replies = 0,
                               !.usage = Usage(0, 0), !.all_tools = TRUE,
                               !.ctx_errors = 0, !.final = <<>>,
                               !.tool = [id |-> 0, failed |-> FALSE]])
    /\ pending' = <<>>
    /\ UNCHANGED <<total_input_tokens, total_output_tokens, last_op, disk, max_turns,
                   cronVars, restVars>>

\* the client returns a reply: usage, add_assistant_message, and either the return
\* of the text or the start of the tool round
ClientReply ==
    /\ pc = "call"
    /\ \E r \in Replies(obs.ids) :
          LET usage == AddUsage(total_usage, r.usage)
              msgs == add_assistant_message(messages, r.content)
              tool_calls == ToolCalls(r.content)
              o == [obs EXCEPT !.replies = @ + 1,
                               !.usage = AddUsage(@, r.usage),
                               !.all_tools = @ /\ tool_calls # <<>>,
                               !.ids = @ + Len(tool_calls),
                               !.tool = [id |-> 0, failed |-> FALSE],
                               !.final = IF tool_calls = <<>> THEN ReplyText(r.content)
                                         ELSE @]
          IN  /\ total_input_tokens' = total_input_tokens + r.usage.input_tokens
              /\ total_output_tokens' = total_output_tokens + r.usage.output_tokens
              /\ total_usage' = usage
              /\ messages' = msgs
              /\ obs' = o
              /\ IF tool_calls = <<>>
                 THEN /\ disk' = Snapshot(msgs, total_input_tokens', total_output_tokens')
                      /\ pc' = "returned"
                      /\ result' = Ok(ReplyText(r.content), usage)
                      /\ pending' = <<>>
                 ELSE /\ pc' = "tools"
                      /\ pending' = tool_calls
                      /\ UNCHANGED <<disk, result>>
    /\ UNCHANGED <<turns, last_op, max_turns, cronVars, restVars>>

\* the client fails: compact(4) and continue on a context-size error, else return it
ClientError ==
    /\ pc = "call"
    /\ \E err \in ClientErrors :
          IF IsContextError(err)
          THEN IF CompactPanics(messages, ReactiveKeep)
               THEN /\ pc' = "panicked"
                    /\ UNCHANGED <<messages, turns, total_usage, result, obs>>
               ELSE LoopHead(compact(messages, total_input_tokens, total_output_tokens,
                                     ReactiveKeep),
                             turns, total_usage, [obs EXCEPT !.ctx_errors = @ + 1])
          ELSE /\ pc' = "returned"
               /\ result' = Err
               /\ UNCHANGED <<messages, turns, total_usage, obs>>
    /\ UNCHANGED <<total_input_tokens, total_output_tokens, last_op, disk, max_turns,
                   pending, cronVars, restVars>>

\* one pass of the `for (id, name, input) in tool_calls` loop; after the last, save
\* and the top of the loop
ToolDone ==
    /\ pc = "tools"
    /\ \E outcome \in ToolOutcomes :
          LET call == Head(pending)
              r == execute_tool(call.name, outcome)
              content == ToolContent(r)
              is_error == ~r.ok
              msgs == add_tool_result(messages, call.id, content, is_error)
              o == [obs EXCEPT !.tool = [id |-> call.id, failed |-> is_error]]
          IN  IF ByteLen(content) > DisplayLimit /\ SliceFails(content, DisplayLimit)
              THEN /\ pc' = "panicked"
                   /\ obs' = o
                   /\ UNCHANGED <<messages, turns, total_usage, result, pending, disk>>
              ELSE IF Tail(pending) # <<>>
              THEN /\ messages' = msgs
                   /\ pending' = Tail(pending)
                   /\ obs' = o
                   /\ UNCHANGED <<pc, turns, total_usage, result, disk>>
              ELSE /\ pending' = <<>>
                   /\ disk' = Snapshot(msgs, total_input_tokens, total_output_tokens)
                   /\ LoopHead(msgs, turns, total_usage, o)
    /\ UNCHANGED <<total_input_tokens, total_output_tokens, last_op, max_turns,
                   cronVars, restVars>>

\* the process ends and starts again: with_persistence(path) loads what was saved
Reload ==
    /\ pc \in {"returned", "panicked"}
    /\ messages' = disk.messages
    /\ total_input_tokens' = disk.total_input_tokens
    /\ total_output_tokens' = disk.total_output_tokens
    /\ pc' = "idle"
    /\ turns' = 0
    /\ total_usage' = Usage(0, 0)
    /\ pending' = <<>>
    /\ result' = NoResult
    /\ UNCHANGED <<last_op, disk, max_turns, obs, cronVars, restVars>>

AgentNext == StartTurn \/ ClientReply \/ ClientError \/ ToolDone \/ Reload

SpecAgent == AgentInit /\ [][AgentNext]_vars

-----------------------------------------------------------------------------
(* The store used on its own: any sequence of add_* and compact calls *)

\* the number of calls made on one store
MaxOps == 4

\* a string of 201 bytes whose byte 200 lies inside a two-byte character
CutStr == Cat(Ascii(199), Data(2, 1, FALSE))

UserTexts == {Ascii(2), Cat(Ascii(2), Ws(1))}

AssistantContents ==
    { <<Thinking(Ascii(40)), Text(Ascii(8))>>,
      <<Text(<<>>), ToolUse(101, "shell", Ascii(16))>>,
      <<Image>> }

\* tool results: an error of 250 bytes, and an output that a slice at 200 cuts
ToolOutputs == { [content |-> Cat(Lit("Error: ", 7), Ascii(243)), is_error |-> TRUE],
                 [content |-> CutStr, is_error |-> FALSE] }

\* the keep_recent of test_compact
TestKeep == 5

Keeps == {0, 1, ReactiveKeep, TestKeep, ProactiveKeep}

\* the spec's scenario: 20 messages, three (ToolUse, ToolResult) pairs among them
RECURSIVE Exchange(_)
Exchange(n) ==
    IF n = 0 THEN <<>>
    ELSE Exchange(n - 1) \o
         << Message("user", <<Text(Ascii(5))>>),
            Message("assistant", <<ToolUse(101, "read_file", Ascii(16))>>),
            Message("user", <<ToolResult(101, Ascii(250), FALSE)>>),
            Message("assistant", <<Text(Ascii(8))>>),
            Message("user", <<Text(Ascii(5))>>),
            Message("assistant", <<Text(Ascii(8))>>) >>

Scenario20 ==
    Exchange(3) \o << Message("user", <<Text(Ascii(5))>>),
                      Message("assistant", <<Text(Ascii(8))>>) >>

Did(op, keep) ==
    [op |-> op, keep |-> keep, len |-> Len(messages), tokens |-> estimated_tokens(messages),
     n |-> last_op.n + 1]

CtxInit ==
    /\ messages \in {<<>>, Scenario20}
    /\ total_input_tokens = 0
    /\ total_output_tokens = 0
    /\ last_op = NoOp
    /\ AgentIdle
    /\ CronIdle
    /\ RestIdle

CtxCanCall == last_op.op # "panic" /\ last_op.n < MaxOps

CtxAddUser ==
    /\ CtxCanCall
    /\ \E text \in UserTexts : messages' = add_user_message(messages, text)
    /\ last_op' = Did("add_user_message", 0)
    /\ UNCHANGED <<total_input_tokens, total_output_tokens, agentVars, cronVars, restVars>>

CtxAddAssistant ==
    /\ CtxCanCall
    /\ \E content \in AssistantContents : messages' = add_assistant_message(messages, content)
    /\ last_op' = Did("add_assistant_message", 0)
    /\ UNCHANGED <<total_input_tokens, total_output_tokens, agentVars, cronVars, restVars>>

CtxAddToolResult ==
    /\ CtxCanCall
    /\ \E out \in ToolOutputs :
          messages' = add_tool_result(messages, 101, out.content, out.is_error)
    /\ last_op' = Did("add_tool_result", 0)
    /\ UNCHANGED <<total_input_tokens, total_output_tokens, agentVars, cronVars, restVars>>

\* compact(keep_recent); a panic unwinds out of the call and ends the run
CtxCompact ==
    /\ CtxCanCall
    /\ \E keep_recent \in Keeps :
          IF CompactPanics(messages, keep_recent)
          THEN /\ last_op' = Did("panic", keep_recent)
               /\ UNCHANGED ctxVars
          ELSE /\ messages' = compact(messages, total_input_tokens, total_output_tokens,
                                      keep_recent)
               /\ last_op' = Did("compact", keep_recent)
               /\ UNCHANGED <<total_input_tokens, total_output_tokens>>
    /\ UNCHANGED <<agentVars, cronVars, restVars>>

CtxNext == CtxAddUser \/ CtxAddAssistant \/ CtxAddToolResult \/ CtxCompact

SpecCtx == CtxInit /\ [][CtxNext]_vars

-----------------------------------------------------------------------------
(* The scheduler: jobs are added and updated, each computing its next run *)

\* jobs in the scheduler
MaxJobs == 1

\* tick() calls
MaxTicks == 2

\* calls of the scheduler: add, update and tick
MaxCronCalls == 4

\* the time between two looks at the clock: a minute, a day
TickDelays == {MsPerMinute, MsPerDay}

Instants ==
    { Utc(2026, 2, 1, 12, 3, 0), Utc(2026, 2, 1, 12, 3, 30500),
      Utc(2026, 2, 2, 9, 0, 0), Utc(2024, 2, 28, 23, 59, 0),
      Utc(2024, 3, 1, 0, 0, 0), Utc(2025, 12, 31, 23, 59, 59999) }

AnyValue == <<Star>>

EveryFiveMinutes == <<<<Step(5)>>, AnyValue, AnyValue, AnyValue, AnyValue>>

MondaysAtNine == <<<<Num(0)>>, <<Num(9)>>, AnyValue, AnyValue, <<Num(1)>>>>

LeapDay == <<<<Num(0)>>, <<Num(0)>>, <<Num(29)>>, <<Num(2)>>, AnyValue>>

February31 == <<<<Num(0)>>, <<Num(0)>>, <<Num(31)>>, <<Num(2)>>, AnyValue>>

\* well-formed expressions
GoodExprs ==
    { EveryFiveMinutes, MondaysAtNine, LeapDay, February31,
      <<AnyValue, AnyValue, AnyValue, AnyValue, AnyValue>>,
      <<<<Num(30)>>, <<Num(18)>>, <<Num(1), Num(15)>>, AnyValue, AnyValue>>,
      <<<<Num(59)>>, <<Num(23)>>, <<Num(31)>>, <<Num(12)>>, AnyValue>>,
      <<<<Num(15), Num(45)>>, <<Step(6)>>, AnyValue, <<Step(3)>>, <<Num(0), Num(6)>>>>,
      <<<<Num(0)>>, <<Num(0)>>, <<Num(13)>>, AnyValue, <<Num(5)>>>> }

\* malformed expressions: four fields, six fields, a minute of 60, a step of 0, a
\* range, nothing between two commas
BadExprs ==
    { <<AnyValue, AnyValue, AnyValue, AnyValue>>,
      <<AnyValue, AnyValue, AnyValue, AnyValue, AnyValue, AnyValue>>,
      <<<<Num(60)>>, AnyValue, AnyValue, AnyValue, AnyValue>>,
      <<<<Step(0)>>, AnyValue, AnyValue, AnyValue, AnyValue>>,
      <<AnyValue, AnyValue, <<Other>>, AnyValue, AnyValue>>,
      <<<<Num(5), Other>>, AnyValue, AnyValue, AnyValue, AnyValue>> }

Intervals == {U64(0), U64(1000), U64(MsPerMinute), U64FromTop(1)}

Anchors(t) ==
    {None, Some(t), Some(PlusMs(t, 0 - 90 * 1000)), Some(PlusMs(t, 60 * MsPerMinute))}

Schedules(t) ==
    {At(at) : at \in Instants}
    \cup {Every(i, a) : i \in Intervals, a \in Anchors(t)}
    \cup {Cron(expr) : expr \in GoodExprs \cup BadExprs}

\* CronScheduler::new on no state file, at some time, and a job to hand to it
CronInit ==
    /\ now \in Instants
    /\ job_request \in Schedules(now)
    /\ jobs = <<>>
    /\ computed = NoComputed
    /\ last_tick = NoTick
    /\ messages = <<>>
    /\ total_input_tokens = 0
    /\ total_output_tokens = 0
    /\ last_op = NoOp
    /\ AgentIdle
    /\ RestIdle

CronRunning == computed.result # Panic

CronCanCall == last_tick.calls < MaxCronCalls

\* the job of that id, as `find` gives it: its position, or 0
FindJob(id) ==
    IF \E i \in 1..Len(jobs) : jobs[i].id = id
    THEN CHOOSE i \in 1..Len(jobs) :
            jobs[i].id = id /\ \A k \in 1..(i - 1) : jobs[k].id # id
    ELSE 0

\* an id no job of the list has (a fresh uuid)
FreshId == IF jobs = <<>> THEN 1 ELSE 1 + Least({0 - jobs[i].id : i \in 1..Len(jobs)}) * (0 - 1)

\* add(job): job.next_run is None and is computed; or, for a one-shot job, it is
\* given as the instant of the schedule
CronAdd ==
    /\ CronRunning
    /\ CronCanCall
    /\ Len(jobs) < MaxJobs
    /\ \E given \in BOOLEAN :
          IF given /\ job_request.type = "at"
          THEN /\ jobs' = Append(jobs, CronJob(FreshId, job_request, Some(job_request.at)))
               /\ UNCHANGED computed
          ELSE /\ computed' = Computed("add", job_request, now)
               /\ jobs' = IF computed'.result = Panic THEN jobs
                          ELSE Append(jobs, CronJob(FreshId, job_request, computed'.result))
    /\ last_tick' = [last_tick EXCEPT !.calls = @ + 1, !.fresh = FALSE,
                                       !.at_returns = <<>>]
    /\ UNCHANGED <<now, job_request, ctxVars, last_op, agentVars, restVars>>

\* update(id, enabled, schedule), for the id of a job and for an id of none (0);
\* the new schedule is the one at hand or a one-shot job for this instant
CronUpdate ==
    /\ CronRunning
    /\ CronCanCall
    /\ \E id \in {0} \cup {jobs[i].id : i \in 1..Len(jobs)},
          enabled \in {None, Some(TRUE), Some(FALSE)},
          schedule \in {None, Some(job_request), Some(At(now))} :
          LET at == FindJob(id) IN
          IF at = 0
          THEN UNCHANGED <<jobs, computed>>
          ELSE LET j == [jobs[at] EXCEPT
                            !.enabled = IF enabled = None THEN @ ELSE enabled.at]
               IN  IF schedule = None
                   THEN jobs' = [jobs EXCEPT ![at] = j] /\ UNCHANGED computed
                   ELSE /\ computed' = Computed("update", schedule.at, now)
                        /\ jobs' = IF computed'.result = Panic
                                   THEN [jobs EXCEPT ![at] =
                                            [j EXCEPT !.schedule = schedule.at]]
                                   ELSE [jobs EXCEPT ![at] =
                                            [j EXCEPT !.schedule = schedule.at,
                                                      !.next_run = computed'.result]]
    /\ last_tick' = [last_tick EXCEPT !.calls = @ + 1, !.fresh = FALSE,
                                       !.at_returns = <<>>]
    /\ UNCHANGED <<now, job_request, ctxVars, last_op, agentVars, restVars>>

\* tick() after some time has passed: the due jobs are cloned into the due list and
\* rescheduled, then the one-shot jobs that are done are dropped
CronTick ==
    /\ CronRunning
    /\ CronCanCall
    /\ last_tick.n < MaxTicks
    /\ \E passed \in TickDelays :
          LET t == PlusMs(now, passed)
              computes == TickComputes(jobs, t)
              last == Least({0 - i : i \in computes}) * (0 - 1)
              ticked == [i \in 1..Len(jobs) |-> TickJob(jobs[i], t)]
          IN  /\ now' = t
              /\ computed' = IF computes = {} THEN computed
                             ELSE Computed("tick", jobs[last].schedule, t)
              /\ IF computes # {} /\ computed'.result = Panic
                 THEN /\ last_tick' = [last_tick EXCEPT !.calls = @ + 1, !.fresh = FALSE]
                      /\ UNCHANGED jobs
                 ELSE /\ jobs' = SelectSeq(ticked, Retained)
                      /\ last_tick' = [calls |-> last_tick.calls + 1,
                                       n |-> last_tick.n + 1, fresh |-> TRUE,
                                       before |-> jobs,
                                       due |-> SelectSeq(jobs, LAMBDA j : IsDue(j, t)),
                                       at_returns |->
                                           last_tick.at_returns \o
                                           [k \in 1..Len(SelectSeq(jobs, LAMBDA j :
                                                  IsDue(j, t) /\ j.schedule.type = "at"))
                                              |-> SelectSeq(jobs, LAMBDA j :
                                                  IsDue(j, t) /\ j.schedule.type = "at")[k].id]]
    /\ UNCHANGED <<job_request, ctxVars, last_op, agentVars, restVars>>

CronNext == CronAdd \/ CronUpdate

SpecCron == CronInit /\ [][CronNext]_vars

\* the scheduler with its clock: a job is handed over at one of two instants, the
\* second a minute before a leap day
TickInstants == {Utc(2026, 2, 1, 12, 3, 0), Utc(2024, 2, 28, 23, 59, 0)}

TickSchedules(t) ==
    {At(PlusMs(t, 0 - 5 * 1000)), At(PlusMs(t, 30 * 1000)), At(PlusMs(t, 2 * MsPerDay))}
    \cup {Every(i, a) : i \in Intervals, a \in {None, Some(PlusMs(t, 0 - 90 * 1000))}}
    \cup {Cron(EveryFiveMinutes), Cron(MondaysAtNine), Cron(LeapDay), Cron(February31)}

TickInit ==
    /\ now \in TickInstants
    /\ job_request \in TickSchedules(now)
    /\ jobs = <<>>
    /\ computed = NoComputed
    /\ last_tick = NoTick
    /\ messages = <<>>
    /\ total_input_tokens = 0
    /\ total_output_tokens = 0
    /\ last_op = NoOp
    /\ AgentIdle
    /\ RestIdle

TickNext == CronAdd \/ CronUpdate \/ CronTick

SpecTick == TickInit /\ [][TickNext]_vars

-----------------------------------------------------------------------------
(* TaskStorage: src/memory.rs.  A path is the sequence of its components, ".."  *)
(* among them, and absolute or not; a place of the filesystem is the sequence   *)
(* of names from "/".  There are no symbolic links.                             *)

\* TaskStorage calls
MaxStorageCalls == 2

Path(abs, names) == [abs |-> abs, names |-> names]

\* the place the components lead to from "/"
RECURSIVE Walk(_)
Walk(names) ==
    IF names = <<>> THEN <<>>
    ELSE LET to == Walk(SubSeq(names, 1, Len(names) - 1))
         IN  IF names[Len(names)] = ".."
             THEN SubSeq(to, 1, Len(to) - 1)
             ELSE Append(to, names[Len(names)])

\* Path::parent
Parent(names) == SubSeq(names, 1, Len(names) - 1)

\* std::fs::create_dir_all(names).ok(): every directory on the way is made, up to a
\* file that stands in the way
create_dir_all(f, names) ==
    LET free(i) == \A k \in 1..i : Walk(SubSeq(names, 1, k)) \notin f.files
    IN  [f EXCEPT !.dirs = @ \cup {Walk(SubSeq(names, 1, i)) :
                                      i \in {k \in 0..Len(names) : free(k)}}]

\* the path can be followed: what it goes through are directories, and it ends at
\* something that exists
Exists(f, names) ==
    /\ \A k \in 1..(Len(names) - 1) : Walk(SubSeq(names, 1, k)) \in f.dirs
    /\ Walk(names) \in f.dirs \cup f.files

StartsWith(place, root) ==
    Len(place) >= Len(root) /\ SubSeq(place, 1, Len(root)) = root

\* resolve: the filesystem it leaves, and the canonical place, a path-escape error
\* or an io error
resolve(f, path) ==
    LET full == IF path.abs THEN path.names ELSE StorageRoot \o path.names
        made == IF full = <<>> THEN f ELSE create_dir_all(f, Parent(full))
        canonical ==
            IF Exists(made, full) THEN Some(Walk(full))
            ELSE IF full # <<>> /\ Exists(made, Parent(full))
                 THEN Some(IF full[Len(full)] = ".." THEN Walk(Parent(full))
                           ELSE Append(Walk(Parent(full)), full[Len(full)]))
                 ELSE None
    IN  IF canonical = None THEN [kind |-> "io", fs |-> made, at |-> <<>>]
        ELSE IF ~StartsWith(canonical.at, StorageRoot)
             THEN [kind |-> "escape", fs |-> made, at |-> <<>>]
             ELSE [kind |-> "ok", fs |-> made, at |-> canonical.at]

\* storage_op: the calls so far, the last call and its path, what it returned, and
\* the filesystem it found
Stored(op, path, kind) ==
    [n |-> storage_op.n + 1, op |-> op, path |-> path, kind |-> kind, before |-> fs]

\* paths inside the root, paths with "..", some leaving the root and some not, and
\* an absolute path
StoragePaths ==
    { Path(FALSE, <<"notes.md">>), Path(FALSE, <<"a", "b.txt">>),
      Path(FALSE, <<"..", "evil", "x">>), Path(FALSE, <<"a", "..", "..", "..", "etc">>),
      Path(FALSE, <<"a", "..", "notes.md">>), Path(FALSE, <<"..">>),
      Path(TRUE, <<"tmp", "out", "x">>) }

StorageCanCall == storage_op.n < MaxStorageCalls

\* write_file(path, content, base64); decodes is whether base64 content decodes
write_file ==
    /\ StorageCanCall
    /\ \E path \in StoragePaths, decodes \in BOOLEAN :
          LET r == resolve(fs, path)
              dirs == create_dir_all(r.fs, Parent(r.at))
          IN  IF r.kind # "ok"
              THEN fs' = r.fs /\ storage_op' = Stored("write_file", path, r.kind)
              ELSE IF \/ Parent(r.at) \notin dirs.dirs
                      \/ ~decodes
                      \/ r.at \in dirs.dirs
                   THEN fs' = dirs /\ storage_op' = Stored("write_file", path, "io")
                   ELSE /\ fs' = [dirs EXCEPT !.files = @ \cup {r.at}]
                        /\ storage_op' = Stored("write_file", path, "ok")
    /\ UNCHANGED <<auxVars, ctxVars, last_op, agentVars, cronVars, botVars, serveVars, clientVars>>

\* read_file(path)
read_file ==
    /\ StorageCanCall
    /\ \E path \in StoragePaths :
          LET r == resolve(fs, path)
          IN  /\ fs' = r.fs
              /\ storage_op' = Stored("read_file", path,
                                      IF r.kind = "ok" /\ r.at \notin r.fs.files THEN "io"
                                      ELSE r.kind)
    /\ UNCHANGED <<auxVars, ctxVars, last_op, agentVars, cronVars, botVars, serveVars, clientVars>>

\* list_files(Some(subdir)): the files under a directory, none under a place that
\* does not exist
list_files ==
    /\ StorageCanCall
    /\ \E subdir \in StoragePaths :
          LET r == resolve(fs, subdir)
          IN  /\ fs' = r.fs
              /\ storage_op' = Stored("list_files", subdir,
                                      IF r.kind = "ok" /\ r.at \in r.fs.files THEN "io"
                                      ELSE r.kind)
    /\ UNCHANGED <<auxVars, ctxVars, last_op, agentVars, cronVars, botVars, serveVars, clientVars>>

\* delete_file(path): remove_dir_all of a directory, remove_file of anything else
delete_file ==
    /\ StorageCanCall
    /\ \E path \in StoragePaths :
          LET r == resolve(fs, path)
          IN  IF r.kind # "ok"
              THEN fs' = r.fs /\ storage_op' = Stored("delete_file", path, r.kind)
              ELSE IF r.at \in r.fs.dirs
              THEN /\ fs' = [dirs |-> {d \in r.fs.dirs : ~StartsWith(d, r.at)},
                             files |-> {x \in r.fs.files : ~StartsWith(x, r.at)}]
                   /\ storage_op' = Stored("delete_file", path, "ok")
              ELSE /\ fs' = [r.fs EXCEPT !.files = @ \ {r.at}]
                   /\ storage_op' = Stored("delete_file", path,
                                           IF r.at \in r.fs.files THEN "ok" ELSE "io")
    /\ UNCHANGED <<auxVars, ctxVars, last_op, agentVars, cronVars, botVars, serveVars, clientVars>>

StorageInit ==
    /\ StorageIdle
    /\ AuxIdle
    /\ messages = <<>>
    /\ total_input_tokens = 0
    /\ total_output_tokens = 0
    /\ last_op = NoOp
    /\ AgentIdle
    /\ CronIdle
    /\ ClientIdle
    /\ BotsIdle
    /\ ServeIdle

StorageNext == write_file \/ read_file \/ list_files \/ delete_file

SpecStorage == StorageInit /\ [][StorageNext]_vars

-----------------------------------------------------------------------------
(* Memory tasks and the bot-management tools: src/memory.rs,                   *)
(* src/tools/bot_management.rs.  Names, lines and paths are strings; INDEX.md   *)
(* is the sequence of its lines, and a missing INDEX.md has none.               *)

\* assign_bot and remove_bot calls
MaxBotCalls == 2

UpperCase == "ABCDEFGHIJKLMNOPQRSTUVWXYZ"

LowerCase == "abcdefghijklmnopqrstuvwxyz"

Digit == "0123456789"

CharIn(c, set) == \E i \in 1..Len(set) : SubSeq(set, i, i) = c

\* str::to_lowercase
RECURSIVE to_lowercase(_)
to_lowercase(str) ==
    IF Len(str) = 0 THEN ""
    ELSE LET c == SubSeq(str, Len(str), Len(str))
             l == IF CharIn(c, UpperCase)
                  THEN LET i == CHOOSE k \in 1..26 : SubSeq(UpperCase, k, k) = c
                       IN  SubSeq(LowerCase, i, i)
                  ELSE c
         IN  to_lowercase(SubSeq(str, 1, Len(str) - 1)) \o l

\* str::find: where the pattern first starts, 0 when it is nowhere
Find(str, pat) ==
    LET at == {i \in 1..(Len(str) - Len(pat) + 1) : SubSeq(str, i, i + Len(pat) - 1) = pat}
    IN  IF at = {} THEN 0 ELSE Least(at)

\* the slug of create_task: lower case, "-" for " ", nothing but letters, digits
\* and "-"
RECURSIVE Slug(_)
Slug(name) ==
    IF Len(name) = 0 THEN ""
    ELSE LET c == to_lowercase(SubSeq(name, Len(name), Len(name)))
             d == IF c = " " THEN "-" ELSE c
         IN  Slug(SubSeq(name, 1, Len(name) - 1))
                \o (IF CharIn(d, LowerCase \o Digit \o "-") THEN d ELSE "")

TaskFile(name) == "tasks/" \o Slug(name) \o ".md"

IndexEntry(name) == "- [" \o name \o "](" \o TaskFile(name) \o ") | status: NOT STARTED"

\* the path of the line's markdown link, None for a line without one
LinkOf(line) ==
    LET start == Find(line, "](")
        rest == SubSeq(line, start + 2, Len(line))
    IN  IF start = 0 \/ Find(rest, ")") = 0 THEN None
        ELSE Some(SubSeq(rest, 1, Find(rest, ")") - 1))

\* load_task(name_or_alias).is_ok(): the first line that contains the name and has
\* a link decides, by whether its file can be read
load_task(mem, name_or_alias) ==
    LET query == to_lowercase(name_or_alias)
        hits == {i \in 1..Len(mem.index) :
                    /\ Find(to_lowercase(mem.index[i]), query) # 0
                    /\ LinkOf(mem.index[i]) # None}
    IN  hits # {} /\ LinkOf(mem.index[Least(hits)]).at \in mem.files

\* create_task(name, "general")
create_task(mem, name) ==
    [index |-> Append(mem.index, IndexEntry(name)), files |-> mem.files \cup {TaskFile(name)}]

\* step 1 of assign_bot: a task for every name but "*" that load_task does not find
RECURSIVE EnsureTasks(_, _)
EnsureTasks(mem, tasks) ==
    IF tasks = <<>> THEN mem
    ELSE LET task == Head(tasks)
         IN  EnsureTasks(IF task = "*" \/ load_task(mem, task) THEN mem
                         ELSE create_task(mem, task),
                         Tail(tasks))

ScopedBotConfig(name, bot_token, tasks) ==
    [name |-> name, bot_token |-> bot_token, tasks |-> tasks]

\* assign_bot_execute: whether it succeeded, the config and the memory root it
\* leaves, and whether it asked for a restart
assign_bot_execute(cfg, mem, input) ==
    IF input.name = "" \/ input.bot_token = "" \/ input.tasks = <<>>
    THEN [ok |-> FALSE, config |-> cfg, memory |-> mem, restart |-> FALSE]
    ELSE IF \E i \in 1..Len(cfg) : cfg[i].name = input.name
    THEN [ok |-> FALSE, config |-> cfg, memory |-> EnsureTasks(mem, input.tasks),
          restart |-> FALSE]
    ELSE [ok |-> TRUE, config |-> Append(cfg, input),
          memory |-> EnsureTasks(mem, input.tasks), restart |-> TRUE]

\* remove_bot_execute
remove_bot_execute(cfg, mem, name) ==
    LET kept == SelectSeq(cfg, LAMBDA b : b.name # name)
    IN  IF name = "" \/ Len(kept) = Len(cfg)
        THEN [ok |-> FALSE, config |-> cfg, memory |-> mem, restart |-> FALSE]
        ELSE [ok |-> TRUE, config |-> kept, memory |-> mem, restart |-> TRUE]

\* the tool calls: what the model puts in the input
BotNames == {"manager", "m2"}

TaskLists == {<<"*">>, <<"api">>, <<"api", "Api V2">>, <<"status">>}

AssignInputs ==
    {ScopedBotConfig(name, "token", tasks) : name \in BotNames, tasks \in TaskLists}
        \cup {ScopedBotConfig("", "token", <<"*">>)}

\* the memory roots the calls may find: empty, with the task "Api V2", with the
\* task "api", and with a line for "api" whose file is gone
NoMemory == [index |-> <<>>, files |-> {}]

Memories ==
    { NoMemory,
      create_task(NoMemory, "Api V2"),
      create_task(NoMemory, "api"),
      [index |-> <<IndexEntry("api")>>, files |-> {}] }

BotCalled(op, input, r) ==
    [n |-> bot_op.n + 1, op |-> op, input |-> input, ok |-> r.ok,
     config |-> config, memory |-> memory]

\* the tool call assign_bot
AssignBot ==
    /\ bot_op.n < MaxBotCalls
    /\ \E input \in AssignInputs :
          LET r == assign_bot_execute(config, memory, input)
          IN  /\ config' = r.config
              /\ memory' = r.memory
              /\ restart_requested' = (restart_requested \/ r.restart)
              /\ bot_op' = BotCalled("assign_bot", input, r)
    /\ UNCHANGED <<auxVars, ctxVars, last_op, agentVars, cronVars, storageVars, serveVars, clientVars>>

\* the tool call remove_bot
RemoveBot ==
    /\ bot_op.n < MaxBotCalls
    /\ \E name \in BotNames \cup {""} :
          LET r == remove_bot_execute(config, memory, name)
          IN  /\ config' = r.config
              /\ memory' = r.memory
              /\ restart_requested' = (restart_requested \/ r.restart)
              /\ bot_op' = BotCalled("remove_bot", name, r)
    /\ UNCHANGED <<auxVars, ctxVars, last_op, agentVars, cronVars, storageVars, serveVars, clientVars>>

BotsInit ==
    /\ config \in {<<>>, <<ScopedBotConfig("m2", "token", <<"*">>)>>}
    /\ memory \in Memories
    /\ restart_requested = FALSE
    /\ bot_op = [n |-> 0, op |-> "none"]
    /\ ServeIdle
    /\ StorageIdle
    /\ AuxIdle
    /\ messages = <<>>
    /\ total_input_tokens = 0
    /\ total_output_tokens = 0
    /\ last_op = NoOp
    /\ AgentIdle
    /\ CronIdle
    /\ ClientIdle

BotsNext == AssignBot \/ RemoveBot

SpecBots == BotsInit /\ [][BotsNext]_vars

-----------------------------------------------------------------------------
(* The daemon: src/cli/serve.rs.  A Conversation is the file behind it and the  *)
(* number of turns it has been through; a chat file is named by its directory   *)
(* and its chat.                                                                *)

\* poll rounds and cron ticks of the daemon, over all its launches
MaxRounds == 1

\* launches of the daemon
MaxLaunches == 2

Chats == {7, 8}

\* ContextManager::new(): a conversation with no file behind it
NewContext == [persist_path |-> None, turns |-> 0]

\* ContextManager::with_persistence(path): what the file holds, or nothing yet
with_persistence(files, path) ==
    [persist_path |-> Some(path), turns |-> IF path \in DOMAIN files THEN files[path] ELSE 0]

\* the map with the key set to the value
Put(map, key, value) ==
    [k \in DOMAIN map \cup {key} |-> IF k = key THEN value ELSE map[k]]

\* the users of the frontend
Users == {42, 99}

\* telegram.allowed_users of the config: no filter, or user 42 only
AllowedLists == {<<>>, <<42>>}

\* a filter that lets every sender in
is_allowed_whoever(allowed_users, user_id) == TRUE

\* TelegramBot::is_allowed
is_allowed(allowed_users, user_id) ==
    \/ allowed_users = <<>>
    \/ \E i \in DOMAIN allowed_users : allowed_users[i] = user_id

\* BotInstance { name, bot: TelegramBot::new(token, allowed_users), offset: 0,
\*               chat_states: HashMap::new(), chats_dir, .. }
BotInstance(name, allowed_users) ==
    [name |-> name, allowed_users |-> allowed_users, offset |-> 0, chat_states |-> <<>>,
     chats_dir |-> <<"chats", name>>]

\* all_bots: the manager, then a bot for every entry of the config; an entry
\* assign_bot wrote with no allowed_users of its own holds the manager's
Bots(cfg, allowed_users) ==
    <<BotInstance("manager", allowed_users)>>
        \o [i \in 1..Len(cfg) |-> BotInstance(cfg[i].name, allowed_users)]

\* TgMessage: its chat, its sender if any, and what it carries: nothing that
\* extract_message_content keeps, a text, or a photo
TgMessage(chat, from, carries) == [chat |-> chat, from |-> from, carries |-> carries]

\* an update of the frontend; message is None or Some(TgMessage)
Update(update_id, message) == [update_id |-> update_id, message |-> message]

UpdateBatches ==
    { <<Update(3, Some(TgMessage(7, Some(42), "text"))),
        Update(4, Some(TgMessage(7, Some(42), "photo")))>>,
      <<Update(5, Some(TgMessage(8, Some(99), "photo"))),
        Update(6, Some(TgMessage(8, None, "text"))),
        Update(7, Some(TgMessage(8, Some(42), "nothing"))),
        Update(3, None)>> }

\* what handle_message has done for the update the loop is at or has just left
Untouched ==
    [downloads |-> 0, typing |-> FALSE, llm_calls |-> 0, result |-> None, reply |-> None,
     cost |-> FALSE]

ReplyLimit == 4000

\* "...\n\n_(truncated)_"
TruncationMarker == Lit("...\n\n_(truncated)_", 18)

NoResponse == Lit("[No response]", 13)

\* the reply handle_message sends for the text of a turn
Outbound(text) ==
    LET reply == IF text = <<>> THEN NoResponse ELSE text
    IN  IF ByteLen(reply) > ReplyLimit
        THEN Cat(BytePrefix(reply, ReplyLimit), TruncationMarker)
        ELSE reply

\* &reply[..4000] panics when byte 4000 lies inside a character
OutboundPanics(text) == ByteLen(text) > ReplyLimit /\ SliceFails(text, ReplyLimit)

\* how a turn of a message ends: an error, or a text: none, 4000 or 4001 ASCII
\* characters, 3000 characters of two bytes, 1500 characters of three bytes
TurnResults ==
    {[kind |-> "err"]} \cup
    { [kind |-> "ok", text |-> t] :
        t \in {<<>>, Ascii(ReplyLimit), Ascii(ReplyLimit + 1), Data(2, 3000, FALSE),
               Data(3, 1500, FALSE)} }

\* a restart check that never sees the flag
RestartUnseen(flag) == FALSE

\* RESTART_REQUESTED.load(Ordering::SeqCst) at the top of the loop
RestartSeen(flag) == flag

\* a turn's end that leaves the stand-in in the map
LeftOut(chat_states, chat_id, context) == chat_states

\* chat.context = agent.context
MovedBack(chat_states, chat_id, context) == Put(chat_states, chat_id, context)

\* where the poll round goes on: the next update, the next bot, or the loop
Onward(d, updates) ==
    IF updates # <<>> THEN [d EXCEPT !.pc = "updates", !.updates = updates]
    ELSE IF d.bot < Len(all_bots)
         THEN [d EXCEPT !.pc = "poll", !.bot = d.bot + 1, !.updates = <<>>]
         ELSE [d EXCEPT !.pc = "loop", !.bot = 0, !.updates = <<>>]

\* the reflective tool calls a turn may make
ReflectiveCalls ==
    { [op |-> "assign_bot", input |-> ScopedBotConfig("m2", "token", <<"*">>)],
      [op |-> "assign_bot", input |-> ScopedBotConfig("manager", "token", <<"*">>)],
      [op |-> "remove_bot", input |-> "m2"] }

\* execute_tool of a reflective tool
Reflect(call) ==
    LET r == IF call.op = "assign_bot" THEN assign_bot_execute(config, memory, call.input)
             ELSE remove_bot_execute(config, memory, call.input)
    IN  /\ config' = r.config
        /\ memory' = r.memory
        /\ restart_requested' = (restart_requested \/ r.restart)
        /\ bot_op' = BotCalled(call.op, call.input, r)

\* run(): the process starts, by hand or by the supervisor after an exit
Launch ==
    /\ serve.pc \in {"none", "exited"}
    /\ serve.launches < MaxLaunches
    /\ all_bots' = Bots(config, serve.allowed_users)
    /\ restart_requested' = FALSE
    /\ serve' = [NoDaemon EXCEPT !.pc = "loop", !.launches = serve.launches + 1,
                                 !.rounds = serve.rounds, !.ticks = serve.ticks,
                                 !.allowed_users = serve.allowed_users]
    /\ UNCHANGED <<config, memory, bot_op, chat_files>>
    /\ UNCHANGED <<auxVars, ctxVars, last_op, agentVars, cronVars, storageVars, clientVars>>

\* the top of the loop with the flag set: cron.save() and exit(0)
RestartExit ==
    /\ serve.pc = "loop"
    /\ RestartSeen(restart_requested)
    /\ restart_requested' = FALSE
    /\ serve' = [serve EXCEPT !.pc = "exited", !.why = "restart", !.cron_saved = TRUE,
                              !.exit_code = Some(0), !.handled = Untouched]
    /\ UNCHANGED <<config, memory, bot_op, all_bots, chat_files>>
    /\ UNCHANGED <<auxVars, ctxVars, last_op, agentVars, cronVars, storageVars, clientVars>>

\* select!: an interrupt arrives while ctrl_c() is awaited, then cron.save() and
\* break; run returns Ok(())
Interrupt ==
    /\ serve.pc = "loop"
    /\ ~RestartSeen(restart_requested)
    /\ serve' = [serve EXCEPT !.pc = "exited", !.why = "interrupt", !.cron_saved = TRUE,
                              !.exit_code = Some(0), !.interrupted = TRUE,
                              !.handled = Untouched]
    /\ UNCHANGED <<botVars, all_bots, chat_files>>
    /\ UNCHANGED <<auxVars, ctxVars, last_op, agentVars, cronVars, storageVars, clientVars>>

\* an interrupt arrives while a branch of the select! runs: the ctrl_c() future of
\* this iteration is dropped, and the one of the next iteration completes on an
\* interrupt that arrives after it is first polled
Signal ==
    /\ serve.pc \in {"poll", "turn", "cron"}
    /\ ~serve.interrupted
    /\ serve' = [serve EXCEPT !.interrupted = TRUE]
    /\ UNCHANGED <<botVars, all_bots, chat_files>>
    /\ UNCHANGED <<auxVars, ctxVars, last_op, agentVars, cronVars, storageVars, clientVars>>

CronDisplayLimit == 200

\* how the turn of a due AgentTask job ends: an error, or a text of 3 ASCII
\* characters or of 67 characters of three bytes
CronResults ==
    {[kind |-> "err"]} \cup
    {[kind |-> "ok", text |-> t] : t \in {Ascii(3), Data(3, 67, FALSE)}}

\* min(a, b)
Min(a, b) == IF a <= b THEN a ELSE b

\* &result.text[..result.text.len().min(200)] panics when the byte it cuts at lies
\* inside a character
CronPrintPanics(text) == SliceFails(text, Min(ByteLen(text), CronDisplayLimit))

\* cron.save()?: the loop goes on, or run returns the error of the write
AfterTick(d, saved) ==
    IF saved THEN [d EXCEPT !.pc = "loop"]
    ELSE [d EXCEPT !.pc = "exited", !.why = "error", !.exit_code = Some(1)]

\* select!: cron_tick; with no agent job due, cron.save()
CronWheel ==
    /\ serve.pc = "loop"
    /\ ~RestartSeen(restart_requested)
    /\ serve.ticks + serve.rounds < MaxRounds
    /\ \E due, saved \in BOOLEAN :
          serve' = IF due
                   THEN [serve EXCEPT !.ticks = @ + 1, !.pc = "cron", !.handled = Untouched]
                   ELSE AfterTick([serve EXCEPT !.ticks = @ + 1, !.handled = Untouched],
                                  saved)
    /\ UNCHANGED <<botVars, all_bots, chat_files>>
    /\ UNCHANGED <<auxVars, ctxVars, last_op, agentVars, cronVars, storageVars, clientVars>>

\* the turn of the due job returns: its result or its error is printed, then
\* cron.save()
CronTurn ==
    /\ serve.pc = "cron"
    /\ \E r \in CronResults, saved \in BOOLEAN :
          serve' = IF r.kind = "ok" /\ CronPrintPanics(r.text)
                   THEN [serve EXCEPT !.pc = "exited", !.why = "panic",
                                      !.exit_code = Some(101)]
                   ELSE AfterTick(serve, saved)
    /\ UNCHANGED <<botVars, all_bots, chat_files>>
    /\ UNCHANGED <<auxVars, ctxVars, last_op, agentVars, cronVars, storageVars, clientVars>>

\* select!: poll_tick, a round over all the bots begins
PollRound ==
    /\ serve.pc = "loop"
    /\ ~RestartSeen(restart_requested)
    /\ serve.ticks + serve.rounds < MaxRounds
    /\ serve' = [serve EXCEPT !.pc = "poll", !.bot = 1, !.rounds = @ + 1,
                              !.handled = Untouched]
    /\ UNCHANGED <<botVars, all_bots, chat_files>>
    /\ UNCHANGED <<auxVars, ctxVars, last_op, agentVars, cronVars, storageVars, clientVars>>

\* bot.bot.get_updates(bot.offset, 0): an error, or the updates the frontend gives
GetUpdates ==
    /\ serve.pc = "poll"
    /\ \E updates \in UpdateBatches \cup {<<>>} :
          serve' = [Onward(serve, updates) EXCEPT !.handled = Untouched]
    /\ UNCHANGED <<botVars, all_bots, chat_files>>
    /\ UNCHANGED <<auxVars, ctxVars, last_op, agentVars, cronVars, storageVars, clientVars>>

\* the next update: the offset moves, and handle_message, for a message it does
\* not drop, downloads the attachment, sends the typing indicator and takes the
\* Conversation of the chat out of the map, a stand-in in its place
TakeUpdate ==
    /\ serve.pc = "updates"
    /\ LET update == Head(serve.updates)
           bot == all_bots[serve.bot]
           moved == [bot EXCEPT !.offset = update.update_id + 1]
           msg == update.message.at
           rest == [Onward(serve, Tail(serve.updates)) EXCEPT !.handled = Untouched]
       IN  IF update.message = None
           THEN /\ all_bots' = [all_bots EXCEPT ![serve.bot] = moved]
                /\ serve' = rest
           ELSE IF msg.from = None \/ ~is_allowed(bot.allowed_users, msg.from.at)
           THEN /\ all_bots' = [all_bots EXCEPT ![serve.bot] = moved]
                /\ serve' = rest
           ELSE IF msg.carries = "nothing"
           THEN /\ all_bots' = [all_bots EXCEPT ![serve.bot] = moved]
                /\ serve' = rest
           ELSE LET chat_id == msg.chat
                    context == IF chat_id \in DOMAIN bot.chat_states
                               THEN bot.chat_states[chat_id]
                               ELSE with_persistence(chat_files, <<bot.chats_dir, chat_id>>)
                IN  /\ all_bots' = [all_bots EXCEPT ![serve.bot] =
                            [moved EXCEPT !.chat_states = Put(@, chat_id, NewContext)]]
                    /\ serve' = [serve EXCEPT
                            !.pc = "turn", !.updates = Tail(@), !.chat = chat_id,
                            !.context = Some(context), !.tool_calls = 0,
                            !.handled = [Untouched EXCEPT
                                !.downloads = IF msg.carries = "photo" THEN 1 ELSE 0,
                                !.typing = TRUE, !.llm_calls = 1]]
    /\ UNCHANGED <<botVars, chat_files>>
    /\ UNCHANGED <<auxVars, ctxVars, last_op, agentVars, cronVars, storageVars, clientVars>>

\* a reflective tool call of the turn in progress
ReflectiveTool ==
    /\ serve.pc = "turn"
    /\ serve.tool_calls = 0
    /\ \E call \in ReflectiveCalls : Reflect(call)
    /\ serve' = [serve EXCEPT !.tool_calls = 1]
    /\ UNCHANGED <<all_bots, chat_files>>
    /\ UNCHANGED <<auxVars, ctxVars, last_op, agentVars, cronVars, storageVars, clientVars>>

\* "❌ Error: {e}"
ErrorNote == Lit("Error: {e}", 14)

\* run_turn returns: the conversation is saved to its file, the reply or the error
\* is sent, the cost of a result is recorded, and the conversation goes back into
\* the map
FinishTurn ==
    /\ serve.pc = "turn"
    /\ \E r \in TurnResults :
        LET bot == all_bots[serve.bot]
            context == [serve.context.at EXCEPT !.turns = @ + 1]
            reply == IF r.text = <<>> THEN NoResponse ELSE r.text
        IN  /\ chat_files' = IF context.persist_path = None THEN chat_files
                             ELSE Put(chat_files, context.persist_path.at, context.turns)
            /\ IF r.kind = "ok" /\ OutboundPanics(reply)
               THEN /\ all_bots' = all_bots
                    /\ serve' = [serve EXCEPT !.pc = "exited", !.why = "panic",
                                              !.exit_code = Some(101),
                                              !.handled.result = Some(r.text)]
               ELSE /\ all_bots' = [all_bots EXCEPT ![serve.bot].chat_states =
                                        MovedBack(@, serve.chat, context)]
                    /\ serve' = [Onward(serve, serve.updates) EXCEPT
                            !.context = None, !.chat = 0,
                            !.handled = IF r.kind = "err"
                                        THEN [@ EXCEPT !.reply = Some(ErrorNote)]
                                        ELSE [@ EXCEPT !.result = Some(r.text),
                                                       !.reply = Some(Outbound(r.text)),
                                                       !.cost = TRUE]]
    /\ UNCHANGED botVars
    /\ UNCHANGED <<auxVars, ctxVars, last_op, agentVars, cronVars, storageVars, clientVars>>

ServeInit ==
    /\ BotsIdle
    /\ all_bots = <<>>
    /\ chat_files = <<>>
    /\ \E allowed_users \in AllowedLists :
          serve = [NoDaemon EXCEPT !.allowed_users = allowed_users]
    /\ StorageIdle
    /\ AuxIdle
    /\ messages = <<>>
    /\ total_input_tokens = 0
    /\ total_output_tokens = 0
    /\ last_op = NoOp
    /\ AgentIdle
    /\ CronIdle
    /\ ClientIdle

ServeNext ==
    \/ Launch
    \/ RestartExit
    \/ Interrupt
    \/ CronWheel
    \/ CronTurn
    \/ PollRound
    \/ GetUpdates
    \/ TakeUpdate
    \/ ReflectiveTool
    \/ FinishTurn

SpecServe == ServeInit /\ [][ServeNext]_vars

\* the daemon, and the interrupts that reach it outside its select
SpecSignal == ServeInit /\ [][ServeNext \/ Signal]_vars


-----------------------------------------------------------------------------
(* The poll tick of the daemon and its backoff: src/cli/serve.rs.  What the     *)
(* round does with the updates it gets is in the actions above; here a round    *)
(* is the bots whose get_updates failed.                                        *)

\* poll rounds
MaxPollRounds == 66

\* the bits of a u64
U64Bits == 64

\* the longest sleep, in seconds
BackoffCap == 60

PollBots == {"manager", "m2"}

\* the powers of two up to the first above the cap: the numbers all of whose
\* divisors but 1 are even
PowersOfTwo == {p \in 1..(2 * BackoffCap) : \A d \in 2..p : p % d = 0 => d % 2 = 0}

\* 2^e, where the first power above the cap stands for every larger one: only
\* its minimum with the cap is taken
Pow2(e) ==
    IF e < Cardinality(PowersOfTwo)
    THEN CHOOSE p \in PowersOfTwo : Cardinality({q \in PowersOfTwo : q < p}) = e
    ELSE CHOOSE p \in PowersOfTwo : \A q \in PowersOfTwo : q <= p

\* 2u64.pow(e): from e = 64 on the product overflows, which panics where overflow
\* is checked and wraps to 0 where it is not
pow(e) ==
    IF e < U64Bits THEN {Some(Pow2(e))} ELSE {Panic, Some(0)}

\* a pow that does not overflow
pow_unbounded(e) == {Some(Pow2(e))}

\* std::cmp::min(2u64.pow(consecutive_poll_errors), 60), when pow returns
Backoff(power) == IF power = Panic THEN Panic ELSE Some(Min(power.at, BackoffCap))

\* select!: poll_tick.  The sleep when rounds have failed, the round over all the
\* bots, and the count of consecutive erroneous rounds
PollTick ==
    /\ poller.pc = "loop"
    /\ poller.rounds < MaxPollRounds
    /\ LET e == poller.consecutive_poll_errors IN
       \E power \in pow(e), failed \in SUBSET PollBots :
          LET backoff == IF e > 0 THEN Backoff(power) ELSE None
              had_error == failed # {}
          IN  poller' =
                IF backoff = Panic
                THEN [poller EXCEPT !.pc = "panicked",
                                    !.last = [e |-> e, backoff |-> Panic, failed |-> {}]]
                ELSE [pc |-> "loop",
                      consecutive_poll_errors |-> IF had_error THEN e + 1 ELSE 0,
                      rounds |-> poller.rounds + 1,
                      last |-> [e |-> e, backoff |-> backoff, failed |-> failed]]
    /\ UNCHANGED <<auth, orchestrator, shared, frontend>>
    /\ UNCHANGED <<ctxVars, last_op, agentVars, cronVars, storageVars, botVars, serveVars,
                   clientVars>>

PollInit ==
    /\ RestIdle
    /\ messages = <<>>
    /\ total_input_tokens = 0
    /\ total_output_tokens = 0
    /\ last_op = NoOp
    /\ AgentIdle
    /\ CronIdle

SpecPoll == PollInit /\ [][PollTick]_vars

-----------------------------------------------------------------------------
(* The daemon and the frontend it polls: src/cli/serve.rs, src/telegram/api.rs. *)
(* The frontend holds the updates it has not been asked to forget: a poll with  *)
(* an offset confirms the updates below it and returns those at or above it.    *)
(* One bot, the manager, is polled; every update carries a message of an        *)
(* allowed user.                                                                *)

\* updates sent to the bot
MaxUpdates == 3

\* launches of the daemon
MaxRelaunches == 3

\* the frontend without updates and no daemon
Frontend ==
    [on |-> TRUE, pc |-> "none", launches |-> 0, sent |-> 0, held |-> {}, offset |-> 0,
     polled |-> 0, batch |-> <<>>, restart_requested |-> FALSE,
     handled |-> [id \in 1..MaxUpdates |-> 0], asked |-> 0]

\* the ids of a set, in ascending order
RECURSIVE Ascending(_)
Ascending(ids) ==
    IF ids = {} THEN <<>> ELSE <<Least(ids)>> \o Ascending(ids \ {Least(ids)})

\* a user sends a message to the bot
UserSends ==
    /\ frontend.on
    /\ frontend.sent < MaxUpdates
    /\ frontend' = [frontend EXCEPT !.sent = @ + 1, !.held = @ \cup {frontend.sent + 1}]
    /\ UNCHANGED <<auth, orchestrator, shared, poller>>
    /\ UNCHANGED <<ctxVars, last_op, agentVars, cronVars, storageVars, botVars, serveVars,
                   clientVars>>

\* run(): the manager BotInstance with offset: 0, in a process whose
\* RESTART_REQUESTED is false
Relaunch ==
    /\ frontend.on
    /\ frontend.pc \in {"none", "exited"}
    /\ frontend.launches < MaxRelaunches
    /\ frontend' = [frontend EXCEPT !.pc = "loop", !.launches = @ + 1, !.offset = 0,
                                    !.batch = <<>>, !.restart_requested = FALSE]
    /\ UNCHANGED <<auth, orchestrator, shared, poller>>
    /\ UNCHANGED <<ctxVars, last_op, agentVars, cronVars, storageVars, botVars, serveVars,
                   clientVars>>

\* the top of the loop with the flag set: exit(0), and the supervisor's restart
\* is the next Relaunch
ExitForRestart ==
    /\ frontend.on
    /\ frontend.pc = "loop"
    /\ RestartSeen(frontend.restart_requested)
    /\ frontend' = [frontend EXCEPT !.pc = "exited"]
    /\ UNCHANGED <<auth, orchestrator, shared, poller>>
    /\ UNCHANGED <<ctxVars, last_op, agentVars, cronVars, storageVars, botVars, serveVars,
                   clientVars>>

\* bot.bot.get_updates(bot.offset, 0)
Poll ==
    /\ frontend.on
    /\ frontend.pc = "loop"
    /\ ~RestartSeen(frontend.restart_requested)
    /\ LET kept == {id \in frontend.held : id >= frontend.offset}
       IN  frontend' = [frontend EXCEPT
               !.held = kept, !.polled = frontend.offset, !.batch = Ascending(kept),
               !.pc = IF kept = {} THEN "loop" ELSE "updates"]
    /\ UNCHANGED <<auth, orchestrator, shared, poller>>
    /\ UNCHANGED <<ctxVars, last_op, agentVars, cronVars, storageVars, botVars, serveVars,
                   clientVars>>

\* for update in updates: bot.offset = update.update_id + 1 and handle_message,
\* whose turn may call assign_bot or remove_bot
Handle ==
    /\ frontend.on
    /\ frontend.pc = "updates"
    /\ \E reflective \in BOOLEAN :
          LET update_id == Head(frontend.batch) IN
          frontend' = [frontend EXCEPT
              !.offset = update_id + 1,
              !.handled[update_id] = @ + 1,
              !.restart_requested = @ \/ reflective,
              !.asked = IF reflective THEN update_id ELSE @,
              !.batch = Tail(@),
              !.pc = IF Tail(frontend.batch) = <<>> THEN "loop" ELSE "updates"]
    /\ UNCHANGED <<auth, orchestrator, shared, poller>>
    /\ UNCHANGED <<ctxVars, last_op, agentVars, cronVars, storageVars, botVars, serveVars,
                   clientVars>>

FrontendInit ==
    /\ StorageIdle
    /\ BotsIdle
    /\ ServeIdle
    /\ ClientIdle
    /\ auth = NoAuth
    /\ orchestrator = NoOrchestrator
    /\ shared = NoSharing
    /\ poller = NoPoller
    /\ frontend = Frontend
    /\ messages = <<>>
    /\ total_input_tokens = 0
    /\ total_output_tokens = 0
    /\ last_op = NoOp
    /\ AgentIdle
    /\ CronIdle

FrontendNext == UserSends \/ Relaunch \/ ExitForRestart \/ Poll \/ Handle

SpecFrontend == FrontendInit /\ [][FrontendNext]_vars
-----------------------------------------------------------------------------
(* The streaming client: src/client.rs.  An SSE frame is the event between two  *)
(* blank lines; a chunk of the byte stream carries whole frames.                *)

\* send_message calls of one client
MaxSends == 2

\* frames of one stream
MaxFrames == 4

Keys == {"sk-ant-oat-1", "sk-ant-api-2"}

Statuses == {200, 401, 500}

\* the authentication headers of a request
Headers(api_key) ==
    IF Len(api_key) >= 10 /\ SubSeq(api_key, 1, 10) = "sk-ant-oat"
    THEN [authorization |-> "Bearer " \o api_key, x_api_key |-> ""]
    ELSE [authorization |-> "", x_api_key |-> api_key]

\* refresh_api_key: the key the client holds afterwards
refresh_api_key(api_key, stored) ==
    IF stored # None /\ stored.at # api_key THEN stored.at ELSE api_key

\* the response part of send_message (lines 198-251): the requests sent, the client
\* afterwards, whether the credential was read again, and how the call goes on
Respond(c, stored, first, second) ==
    LET sent == <<Headers(c.api_key)>>
        new_key == refresh_api_key(c.api_key, stored)
    IN  IF first = 200
        THEN [requests |-> sent, client |-> [c EXCEPT !.retried_auth = FALSE],
              reread |-> FALSE, outcome |-> "stream"]
        ELSE IF first = 401 /\ ~c.retried_auth
        THEN IF new_key # c.api_key
             THEN [requests |-> Append(sent, Headers(new_key)),
                   client |-> [api_key |-> new_key, retried_auth |-> second # 200],
                   reread |-> TRUE,
                   outcome |-> IF second = 200 THEN "stream" ELSE "error"]
             ELSE [requests |-> sent, client |-> [c EXCEPT !.retried_auth = TRUE],
                   reread |-> TRUE, outcome |-> "unauthorized"]
        ELSE [requests |-> sent, client |-> c, reread |-> FALSE, outcome |-> "error"]

\* the frames
BlockStart(index, block) == [event |-> "content_block_start", index |-> index, block |-> block]

BlockDelta(index, text) == [event |-> "content_block_delta", index |-> index, text |-> text]

BlockStop(index) == [event |-> "content_block_stop", index |-> index]

Ping == [event |-> "ping"]

UnknownEvent == [event |-> "keepalive"]

\* event: error, with data that parses
ErrorEvent == [event |-> "error"]

\* parse_next_sse_event of a whole frame: None for an event type it does not know
parse_next_sse_event(frame) ==
    IF frame.event \in {"ping", "content_block_start", "content_block_delta",
                        "content_block_stop", "error"}
    THEN Some(frame) ELSE None

\* InProgressBlock::default()
InProgressBlock ==
    [block_type |-> "text", text |-> "", tool_id |-> "", tool_name |-> ""]

\* serde_json::from_str of the accumulated input of a tool call
from_str(text) ==
    IF text = "{\"a\":1}" THEN Some([a |-> 1])
    ELSE IF text = "{}" THEN Some(<<>>)
    ELSE None

\* content_block_stop: the ContentBlock of an in-progress block
Finalize(block) ==
    IF block.block_type = "text" THEN Text(block.text)
    ELSE IF block.block_type = "thinking"
    THEN [type |-> "thinking", thinking |-> block.text, signature |-> ""]
    ELSE ToolUse(block.tool_id, block.tool_name,
                 IF from_str(block.text) = None THEN <<>> ELSE from_str(block.text).at)

\* the match of the stream loop on one event
OnEvent(st, event) ==
    LET at == event.index + 1
        padded == st.current_blocks
                    \o [k \in 1..(at - Len(st.current_blocks)) |-> InProgressBlock]
    IN  IF event.event = "content_block_start"
        THEN [st EXCEPT !.current_blocks =
                [padded EXCEPT ![at] =
                    IF event.block.type = "tool_use"
                    THEN [@ EXCEPT !.block_type = "tool_use", !.tool_id = event.block.id,
                                   !.tool_name = event.block.name]
                    ELSE [@ EXCEPT !.block_type = event.block.type]]]
        ELSE IF event.event = "content_block_delta" /\ at <= Len(st.current_blocks)
        THEN [st EXCEPT !.current_blocks[at].text = @ \o event.text]
        ELSE IF event.event = "content_block_stop" /\ at <= Len(st.current_blocks)
        THEN [st EXCEPT !.content = Append(@, Finalize(st.current_blocks[at]))]
        ELSE st

\* while let Some(event) = parse_next_sse_event(&mut buffer): the frames of the
\* buffer up to the first that does not parse, which is consumed too
RECURSIVE Drain(_)
Drain(st) ==
    IF st.buffer = <<>> THEN st
    ELSE LET event == parse_next_sse_event(Head(st.buffer))
             rest == [st EXCEPT !.buffer = Tail(@)]
         IN  IF event = None THEN rest ELSE Drain(OnEvent(rest, event.at))

\* what the frames sent so far say of a block
Started(sent, i) ==
    \E k \in 1..Len(sent) : sent[k].event = "content_block_start" /\ sent[k].index = i

Stopped(sent, i) ==
    \E k \in 1..Len(sent) : sent[k].event = "content_block_stop" /\ sent[k].index = i

DeltasOf(sent, i) ==
    SelectSeq(sent, LAMBDA f : f.event = "content_block_delta" /\ f.index = i)

TypeOf(sent, i) ==
    (CHOOSE f \in {sent[k] : k \in 1..Len(sent)} :
        f.event = "content_block_start" /\ f.index = i).block.type

StartInfos ==
    { [type |-> "text"], [type |-> "thinking"],
      [type |-> "tool_use", id |-> "toolu_1", name |-> "shell"] }

\* the frames the server may send next: each block is started once, then gets at
\* most two deltas of its kind, then is stopped; a ping, an error event and an
\* event of a type the client does not know come in between
NextFrames(sent) ==
    {BlockStart(i, b) : i \in {i \in 0..1 : ~Started(sent, i)}, b \in StartInfos}
    \cup {BlockDelta(i, t) :
            i \in {i \in 0..1 : /\ Started(sent, i) /\ ~Stopped(sent, i)
                                /\ Len(DeltasOf(sent, i)) < 2},
            t \in {"Hel", "lo", "{\"a\":1", "}"}}
    \cup {BlockStop(i) : i \in {i \in 0..1 : Started(sent, i) /\ ~Stopped(sent, i)}}
    \cup {f \in {Ping, UnknownEvent, ErrorEvent} : \A k \in 1..Len(sent) : sent[k] # f}

\* the deltas of a block are of its kind
OfKind(sent, f) ==
    f.event = "content_block_delta" =>
        (f.text \in {"{\"a\":1", "}"}) = (TypeOf(sent, f.index) = "tool_use")

\* a send_message call up to the response it streams from
SendMessage ==
    /\ stream.state = "none"
    /\ send_op.n < MaxSends
    /\ \E first \in Statuses, second \in Statuses :
          LET r == Respond(client, credential, first, second)
          IN  /\ client' = r.client
              /\ send_op' = [n |-> send_op.n + 1, first |-> first, key |-> client.api_key,
                             stored |-> credential, requests |-> r.requests,
                             reread |-> r.reread, outcome |-> r.outcome]
              /\ stream' = IF r.outcome = "stream" THEN [NoStream EXCEPT !.state = "open"]
                           ELSE NoStream
    /\ UNCHANGED credential
    /\ UNCHANGED <<auxVars, ctxVars, last_op, agentVars, cronVars, storageVars, botVars, serveVars>>

\* the credential store changes between two calls
CredentialChange ==
    /\ stream.state = "none"
    /\ send_op.n \in 1..(MaxSends - 1)
    /\ \E stored \in {Some(k) : k \in Keys} \cup {None} :
          stored # credential /\ credential' = stored
    /\ UNCHANGED <<client, send_op, stream>>
    /\ UNCHANGED <<auxVars, ctxVars, last_op, agentVars, cronVars, storageVars, botVars, serveVars>>

\* a chunk of one or two frames arrives and the buffer is drained
ReadChunk ==
    /\ stream.state = "open"
    /\ \E f \in {f \in NextFrames(stream.sent) : OfKind(stream.sent, f)} :
          LET one == Append(stream.sent, f)
              second == {g \in NextFrames(one) : OfKind(one, g)}
          IN  \E chunk \in {<<f>>} \cup {<<f, g>> : g \in second} :
                 /\ Len(stream.sent) + Len(chunk) <= MaxFrames
                 /\ stream' = [Drain([stream EXCEPT !.buffer = @ \o chunk])
                                  EXCEPT !.sent = stream.sent \o chunk]
    /\ UNCHANGED <<client, credential, send_op>>
    /\ UNCHANGED <<auxVars, ctxVars, last_op, agentVars, cronVars, storageVars, botVars, serveVars>>

\* the stream ends: send_message returns Ok(result)
EndStream ==
    /\ stream.state = "open"
    /\ stream' = [stream EXCEPT !.state = "done"]
    /\ UNCHANGED <<client, credential, send_op>>
    /\ UNCHANGED <<auxVars, ctxVars, last_op, agentVars, cronVars, storageVars, botVars, serveVars>>

ClientInit ==
    /\ \E key \in Keys : client = [api_key |-> key, retried_auth |-> FALSE]
    /\ credential \in {Some(k) : k \in Keys} \cup {None}
    /\ send_op = [n |-> 0, first |-> 0]
    /\ stream = NoStream
    /\ StorageIdle
    /\ AuxIdle
    /\ BotsIdle
    /\ ServeIdle
    /\ messages = <<>>
    /\ total_input_tokens = 0
    /\ total_output_tokens = 0
    /\ last_op = NoOp
    /\ AgentIdle
    /\ CronIdle

ClientNext == SendMessage \/ CredentialChange \/ ReadChunk \/ EndStream

SpecClient == ClientInit /\ [][ClientNext]_vars

-----------------------------------------------------------------------------
(* Credentials: src/auth.rs.  A source is a file that is absent, that does not  *)
(* parse, or that holds what its format says; the environment variable is None  *)
(* or a key.                                                                     *)

Absent == [kind |-> "absent"]

Unparsable == [kind |-> "unparsable"]

\* credentials.toml: anthropic.api_key
Credentials(api_key) == [kind |-> "file", api_key |-> api_key]

ClaudeAiOAuth(access_token, expires_at) ==
    [access_token |-> access_token, expires_at |-> expires_at]

\* ~/.claude/.credentials.json: claudeAiOauth
ClaudeCodeCredentials(claude_ai_oauth) ==
    [kind |-> "file", claude_ai_oauth |-> claude_ai_oauth]

\* auth-profiles.json: the profile anthropic:default
OpenClawProfile(profile_type, provider, token, access, expires) ==
    [kind |-> "file", profile_type |-> profile_type, provider |-> provider,
     token |-> token, access |-> access, expires |-> expires]

\* Result<Option<String>> and Result<String>
Found(value) == [kind |-> "ok", value |-> value]

Failed == [kind |-> "err"]

\* AuthStore::load: credentials.anthropic.api_key, from the file and then from
\* ANTHROPIC_API_KEY
load(env, toml) ==
    IF env # None THEN env
    ELSE IF toml.kind = "file" THEN toml.api_key
    ELSE None

\* read_claude_code_oauth
read_claude_code_oauth(claude, now_ms) ==
    IF claude.kind = "absent" THEN Found(None)
    ELSE IF claude.kind = "unparsable" THEN Failed
    ELSE IF claude.claude_ai_oauth = None THEN Found(None)
    ELSE LET oauth == claude.claude_ai_oauth.at
         IN  IF oauth.expires_at # None /\ now_ms > oauth.expires_at.at
             THEN Found(None)
             ELSE Found(Some(oauth.access_token))

\* read_openclaw_auth, for its one candidate path
read_openclaw_auth(profile, now_ms) ==
    IF profile.kind # "file" THEN Found(None)
    ELSE IF profile.provider # "anthropic" THEN Found(None)
    ELSE IF profile.profile_type = "token" /\ profile.token # None
    THEN IF profile.expires # None /\ now_ms > profile.expires.at
         THEN Found(None)
         ELSE Found(profile.token)
    ELSE IF profile.profile_type = "oauth" /\ profile.access # None
    THEN IF profile.expires # None /\ now_ms > profile.expires.at
         THEN Found(None)
         ELSE Found(profile.access)
    ELSE Found(None)

\* AuthStore::anthropic_api_key, on what load read
anthropic_api_key(api_key, claude, openclaw, now_ms) ==
    IF api_key # None THEN Found(api_key.at)
    ELSE LET cli == read_claude_code_oauth(claude, now_ms)
             oc == read_openclaw_auth(openclaw, now_ms)
         IN  IF cli = Failed THEN Failed
             ELSE IF cli.value # None THEN Found(cli.value.at)
             ELSE IF oc.value # None THEN Found(oc.value.at)
             ELSE Failed

Envs == {None, Some("sk-env")}

Tomls == {Absent, Unparsable, Credentials(None), Credentials(Some("sk-toml"))}

ClaudeFiles ==
    {Absent, Unparsable, ClaudeCodeCredentials(None)} \cup
    {ClaudeCodeCredentials(Some(ClaudeAiOAuth("oat-cli", e))) : e \in {None, Some(150)}}

OpenClawFiles ==
    { Absent,
      OpenClawProfile("oauth", "anthropic", None, Some("oat-oc"), Some(150)),
      OpenClawProfile("token", "anthropic", Some("tok-oc"), None, None),
      OpenClawProfile("oauth", "other", None, Some("oat-other"), None) }

\* SystemTime::now() in milliseconds: before, at and after the expiry of 150
Clock == {100, 150, 200}

\* AuthStore::load()?.anthropic_api_key(), whatever the sources hold
Resolve ==
    /\ \E env \in Envs, toml \in Tomls, claude \in ClaudeFiles, openclaw \in OpenClawFiles,
          now_ms \in Clock :
          auth' = [n |-> 1, env |-> env, toml |-> toml, claude |-> claude,
                   openclaw |-> openclaw, now_ms |-> now_ms,
                   key |-> anthropic_api_key(load(env, toml), claude, openclaw, now_ms)]
    /\ UNCHANGED <<orchestrator, shared, poller, frontend>>
    /\ UNCHANGED <<ctxVars, last_op, agentVars, cronVars, storageVars, botVars, serveVars,
                   clientVars>>

AuthInit ==
    /\ RestIdle
    /\ messages = <<>>
    /\ total_input_tokens = 0
    /\ total_output_tokens = 0
    /\ last_op = NoOp
    /\ AgentIdle
    /\ CronIdle

SpecAuth == AuthInit /\ [][Resolve]_vars

-----------------------------------------------------------------------------
(* The state files and the activities that read and write them: cron-jobs.json  *)
(* by the daemon (src/cli/serve.rs) and by `devman cron add` (src/main.rs),     *)
(* config.toml by config_update (src/dashboard/api.rs) and by assign_bot        *)
(* (src/tools/bot_management.rs).  cron-jobs.json is the set of its job names,  *)
(* config.toml its agents.max_turns and the names of telegram.bots.  A step is  *)
(* one read or one write of a file; no code of the repository takes a lock.     *)

\* reads and ticks the activities begin
MaxFileOps == 5

\* an activity that holds nothing
Resting == [pc |-> "idle"]

\* the daemon has loaded cron-jobs.json, which holds the one-shot job "once"
Sharing ==
    [on |-> TRUE, n |-> 0, cron_file |-> {"once"},
     config_file |-> [max_turns |-> 1, bots |-> {}],
     daemon |-> [pc |-> "idle", jobs |-> {"once"}],
     cli |-> Resting, dash |-> Resting, tool |-> Resting]

\* cron_tick: tick() drops the one-shot job that is due; the turn of the job
\* begins, or with nothing due cron.save() writes the file
DaemonTick ==
    /\ shared.on /\ shared.n < MaxFileOps
    /\ shared.daemon.pc = "idle"
    /\ \E due \in BOOLEAN :
          shared' = IF due /\ "once" \in shared.daemon.jobs
                    THEN [shared EXCEPT !.n = @ + 1,
                                        !.daemon = [pc |-> "turn", jobs |-> @.jobs \ {"once"}]]
                    ELSE [shared EXCEPT !.n = @ + 1, !.cron_file = shared.daemon.jobs]
    /\ UNCHANGED <<auth, orchestrator, poller, frontend>>
    /\ UNCHANGED <<ctxVars, last_op, agentVars, cronVars, storageVars, botVars, serveVars,
                   clientVars>>

\* the turn of the due job is over: cron.save() writes the file
DaemonSave ==
    /\ shared.on
    /\ shared.daemon.pc = "turn"
    /\ shared' = [shared EXCEPT !.cron_file = shared.daemon.jobs, !.daemon.pc = "idle"]
    /\ UNCHANGED <<auth, orchestrator, poller, frontend>>
    /\ UNCHANGED <<ctxVars, last_op, agentVars, cronVars, storageVars, botVars, serveVars,
                   clientVars>>

\* devman cron add: CronScheduler::new reads the file
CronAddLoad ==
    /\ shared.on /\ shared.n < MaxFileOps
    /\ shared.cli.pc = "idle"
    /\ shared' = [shared EXCEPT !.n = @ + 1,
                                !.cli = [pc |-> "loaded", jobs |-> shared.cron_file]]
    /\ UNCHANGED <<auth, orchestrator, poller, frontend>>
    /\ UNCHANGED <<ctxVars, last_op, agentVars, cronVars, storageVars, botVars, serveVars,
                   clientVars>>

\* devman cron add: scheduler.add(job), scheduler.save()
CronAddSave ==
    /\ shared.on
    /\ shared.cli.pc = "loaded"
    /\ shared' = [shared EXCEPT !.cron_file = shared.cli.jobs \cup {"nightly"},
                                !.cli = Resting]
    /\ UNCHANGED <<auth, orchestrator, poller, frontend>>
    /\ UNCHANGED <<ctxVars, last_op, agentVars, cronVars, storageVars, botVars, serveVars,
                   clientVars>>

\* config_update: read_to_string(config_path)
ConfigUpdateRead ==
    /\ shared.on /\ shared.n < MaxFileOps
    /\ shared.dash.pc = "idle"
    /\ shared' = [shared EXCEPT !.n = @ + 1,
                                !.dash = [pc |-> "read", doc |-> shared.config_file]]
    /\ UNCHANGED <<auth, orchestrator, poller, frontend>>
    /\ UNCHANGED <<ctxVars, last_op, agentVars, cronVars, storageVars, botVars, serveVars,
                   clientVars>>

\* config_update: the document with agents.max_turns set is written back
ConfigUpdateWrite ==
    /\ shared.on
    /\ shared.dash.pc = "read"
    /\ shared' = [shared EXCEPT !.config_file = [shared.dash.doc EXCEPT !.max_turns = 2],
                                !.dash = Resting]
    /\ UNCHANGED <<auth, orchestrator, poller, frontend>>
    /\ UNCHANGED <<ctxVars, last_op, agentVars, cronVars, storageVars, botVars, serveVars,
                   clientVars>>

\* assign_bot_execute: Config::load()
AssignLoad ==
    /\ shared.on /\ shared.n < MaxFileOps
    /\ shared.tool.pc = "idle"
    /\ shared' = [shared EXCEPT !.n = @ + 1,
                                !.tool = [pc |-> "loaded", config |-> shared.config_file]]
    /\ UNCHANGED <<auth, orchestrator, poller, frontend>>
    /\ UNCHANGED <<ctxVars, last_op, agentVars, cronVars, storageVars, botVars, serveVars,
                   clientVars>>

\* assign_bot_execute: the duplicate check, tg.bots.push(new_bot), config.save()
AssignSave ==
    /\ shared.on
    /\ shared.tool.pc = "loaded"
    /\ shared' = IF "m2" \in shared.tool.config.bots
                 THEN [shared EXCEPT !.tool = Resting]
                 ELSE [shared EXCEPT
                          !.config_file = [shared.tool.config EXCEPT !.bots = @ \cup {"m2"}],
                          !.tool = Resting]
    /\ UNCHANGED <<auth, orchestrator, poller, frontend>>
    /\ UNCHANGED <<ctxVars, last_op, agentVars, cronVars, storageVars, botVars, serveVars,
                   clientVars>>

FilesInit ==
    /\ StorageIdle
    /\ BotsIdle
    /\ ServeIdle
    /\ ClientIdle
    /\ auth = NoAuth
    /\ orchestrator = NoOrchestrator
    /\ shared = Sharing
    /\ poller = NoPoller
    /\ frontend = NoFrontend
    /\ messages = <<>>
    /\ total_input_tokens = 0
    /\ total_output_tokens = 0
    /\ last_op = NoOp
    /\ AgentIdle
    /\ CronIdle

FilesNext ==
    \/ DaemonTick
    \/ DaemonSave
    \/ CronAddLoad
    \/ CronAddSave
    \/ ConfigUpdateRead
    \/ ConfigUpdateWrite
    \/ AssignLoad
    \/ AssignSave

SpecFiles == FilesInit /\ [][FilesNext]_vars

-----------------------------------------------------------------------------
(* The sub-agent pool: src/orchestrator.rs.  The clock is read to the second;  *)
(* a run id is the second and the first 20 bytes of the task id.                *)

MaxSpawns == 3

\* seconds the clock may advance
MaxSeconds == 1

RunIdPrefix == 20

TaskIds == {"fix-login", "document-the-api-of-billing", "document-the-api-of-search"}

\* format!("run-{}-{}", Utc::now().format("%Y%m%d-%H%M%S"),
\*         &task_id[..task_id.len().min(20)])
RunId(second, task_id) == <<second, SubSeq(task_id, 1, Min(Len(task_id), RunIdPrefix))>>

SubAgentRecord(run_id, task_id) ==
    [run_id |-> run_id, task_id |-> task_id, status |-> "Running", output |-> None]

\* Orchestrator::new, and a clock
Pool ==
    [on |-> TRUE, n |-> 0, second |-> 0, agents |-> <<>>, tasks |-> <<>>, inbox |-> <<>>,
     inserted |-> {}]

\* self.agents.insert(run_id, record)
Insert(agents, run_id, record) == Put(agents, run_id, record)

\* spawn: the record goes into the table and the task of the turn is spawned
Spawn ==
    /\ orchestrator.on /\ orchestrator.n < MaxSpawns
    /\ \E task_id \in TaskIds :
          LET run_id == RunId(orchestrator.second, task_id)
              record == SubAgentRecord(run_id, task_id)
          IN  orchestrator' = [orchestrator EXCEPT
                  !.n = @ + 1,
                  !.agents = Insert(@, run_id, record),
                  !.tasks = Append(@, run_id),
                  !.inserted = @ \cup {<<run_id, task_id>>}]
    /\ UNCHANGED <<auth, shared, poller, frontend>>
    /\ UNCHANGED <<ctxVars, last_op, agentVars, cronVars, storageVars, botVars, serveVars,
                   clientVars>>

\* the turn of a spawned task returns and its message is sent on the channel
TaskEnds ==
    /\ orchestrator.on
    /\ \E i \in DOMAIN orchestrator.tasks, kind \in {"Done", "Error"} :
          orchestrator' = [orchestrator EXCEPT
              !.tasks = SubSeq(@, 1, i - 1) \o SubSeq(@, i + 1, Len(@)),
              !.inbox = Append(@, [kind |-> kind, run_id |-> orchestrator.tasks[i]])]
    /\ UNCHANGED <<auth, shared, poller, frontend>>
    /\ UNCHANGED <<ctxVars, last_op, agentVars, cronVars, storageVars, botVars, serveVars,
                   clientVars>>

\* try_recv with a message on the channel
try_recv ==
    /\ orchestrator.on
    /\ orchestrator.inbox # <<>>
    /\ LET msg == Head(orchestrator.inbox)
           agents == orchestrator.agents
       IN  orchestrator' = [orchestrator EXCEPT
               !.inbox = Tail(@),
               !.agents =
                   IF msg.run_id \notin DOMAIN agents THEN agents
                   ELSE IF msg.kind = "Done"
                   THEN [agents EXCEPT ![msg.run_id].status = "Complete",
                                       ![msg.run_id].output = Some("output")]
                   ELSE [agents EXCEPT ![msg.run_id].status = "Failed"]]
    /\ UNCHANGED <<auth, shared, poller, frontend>>
    /\ UNCHANGED <<ctxVars, last_op, agentVars, cronVars, storageVars, botVars, serveVars,
                   clientVars>>

\* kill of a run id of the table
kill ==
    /\ orchestrator.on
    /\ \E run_id \in DOMAIN orchestrator.agents :
          /\ orchestrator.agents[run_id].status # "Killed"
          /\ orchestrator' = [orchestrator EXCEPT !.agents[run_id].status = "Killed"]
    /\ UNCHANGED <<auth, shared, poller, frontend>>
    /\ UNCHANGED <<ctxVars, last_op, agentVars, cronVars, storageVars, botVars, serveVars,
                   clientVars>>

\* a second passes
Second ==
    /\ orchestrator.on
    /\ orchestrator.second < MaxSeconds
    /\ orchestrator' = [orchestrator EXCEPT !.second = @ + 1]
    /\ UNCHANGED <<auth, shared, poller, frontend>>
    /\ UNCHANGED <<ctxVars, last_op, agentVars, cronVars, storageVars, botVars, serveVars,
                   clientVars>>

PoolInit ==
    /\ StorageIdle
    /\ BotsIdle
    /\ ServeIdle
    /\ ClientIdle
    /\ auth = NoAuth
    /\ orchestrator = Pool
    /\ shared = NoSharing
    /\ poller = NoPoller
    /\ frontend = NoFrontend
    /\ messages = <<>>
    /\ total_input_tokens = 0
    /\ total_output_tokens = 0
    /\ last_op = NoOp
    /\ AgentIdle
    /\ CronIdle

PoolNext == Spawn \/ TaskEnds \/ try_recv \/ kill \/ Second

SpecPool == PoolInit /\ [][PoolNext]_vars

-----------------------------------------------------------------------------
(* Properties of the store *)

IsToolBlock(b) == b.type \in {"tool_use", "tool_result"}

NoToolBlocks(msgs) == \A i \in 1..Len(Blocks(msgs)) : ~IsToolBlock(Blocks(msgs)[i])

\* the text was written from the literal that holds the word "compacted"
ContainsCompacted(text) == \E i \in 1..Len(text) : text[i].lit = "[Conversation compacted "

\* the last call was a compact(keep) that found more than keep + 1 messages
Compacted == last_op.op = "compact" /\ last_op.len > last_op.keep + 1

\* the ToolUse block of message i has its ToolResult in a later message
Answered(msgs, i, b) ==
    \E j \in (i + 1)..Len(msgs) : \E c \in 1..Len(msgs[j].content) :
        /\ msgs[j].content[c].type = "tool_result"
        /\ msgs[j].content[c].tool_use_id = b.id

WellPaired(msgs) ==
    \A i \in 1..Len(msgs) : \A c \in 1..Len(msgs[i].content) :
        msgs[i].content[c].type = "tool_use" => Answered(msgs, i, msgs[i].content[c])

HasToolUse(msgs) ==
    \E i \in 1..Len(Blocks(msgs)) : Blocks(msgs)[i].type = "tool_use"

\* C1: every time run_turn calls the client, each ToolUse block of the conversation
\* it sends has a ToolResult block with the same id in a later message (or was
\* removed by a compaction).
C1_ToolUsePaired == pc = "call" => WellPaired(messages)

\* the client is called after a tool round of this turn, one of whose tools failed,
\* with the tool uses still in the conversation
C1_Witness ==
    /\ pc = "call"
    /\ obs.calls = 2
    /\ obs.tool.failed
    /\ HasToolUse(messages)
    /\ WellPaired(messages)

\* the last message is the error result of the tool call just executed
ErrorResultAppended ==
    /\ messages # <<>>
    /\ LET m == messages[Len(messages)]
       IN  /\ m.role = "user"
           /\ Len(m.content) = 1
           /\ m.content[1].type = "tool_result"
           /\ m.content[1].tool_use_id = obs.tool.id
           /\ m.content[1].is_error

\* C2: every tool error, that of an unknown tool name included, is appended to the
\* conversation as a ToolResult with is_error = true and the loop goes on: run_turn
\* does not end because a tool failed.
C2_ToolErrorsAppended ==
    (obs.tool.failed /\ pc \in {"tools", "panicked"}) =>
        /\ pc = "tools"
        /\ ErrorResultAppended

\* C3: with max_turns = N, run_turn returns the text of the first reply without tool
\* use (the k-th, k <= N); when all N replies hold a tool use it returns Ok with
\* "[Turn limit reached]" and the sum of the replies' usage; the client is never
\* called an N+1-th time.
C3_TurnLimit ==
    /\ obs.calls <= max_turns
    /\ (pc # "idle" /\ ~obs.all_tools) =>
          /\ pc = "returned"
          /\ obs.replies <= max_turns
          /\ result = Ok(obs.final, obs.usage)
    /\ (obs.runs > 0 /\ pc \notin {"idle", "tools"} /\ obs.all_tools
          /\ obs.replies = max_turns) =>
          /\ pc = "returned"
          /\ result = Ok(TurnLimitText, obs.usage)

C5_CompactKeepsRecent ==
    Compacted =>
        /\ Len(messages) = last_op.keep + 2
        /\ messages[1].content[1].type = "text"
        /\ ContainsCompacted(messages[1].content[1].text)

\* C6: estimated_tokens() never decreases across an add_* call and never increases
\* across compact(k).
C6_TokensMonotone ==
    /\ last_op.op \in {"add_user_message", "add_assistant_message", "add_tool_result"}
          => estimated_tokens(messages) >= last_op.tokens
    /\ last_op.op = "compact" => estimated_tokens(messages) <= last_op.tokens

\* C7: when estimated_tokens() is above 80 000 before a call of the client, one
\* compaction runs and the conversation sent is below the threshold.
C7_SentBelowThreshold ==
    (pc = "call" /\ obs.checked > CompactThreshold) =>
        /\ obs.compacted = 1
        /\ estimated_tokens(messages) < CompactThreshold

-----------------------------------------------------------------------------
(* Properties of compute_next_run *)

\* years looked ahead for a minute that matches
HorizonYears == 28

Called == computed.op # "none"

\* the part is one of "*", "*/n" with n > 0, and a number of the range
PartWellFormed(part, min, max) ==
    \/ part.k = "star"
    \/ part.k = "step" /\ part.n > 0
    \/ part.k = "num" /\ part.n >= min /\ part.n <= max

FieldWellFormed(field, min, max) ==
    \A i \in 1..Len(field) : PartWellFormed(field[i], min, max)

WellFormed(expr) ==
    /\ Len(expr) = 5
    /\ FieldWellFormed(expr[1], 0, 59)
    /\ FieldWellFormed(expr[2], 0, 23)
    /\ FieldWellFormed(expr[3], 1, 31)
    /\ FieldWellFormed(expr[4], 1, 12)
    /\ FieldWellFormed(expr[5], 0, 6)

\* the field of a well-formed expression allows the value v
Allows(field, min, v) ==
    \E i \in 1..Len(field) :
        \/ field[i].k = "star"
        \/ field[i].k = "step" /\ (v - min) % field[i].n = 0
        \/ field[i].k = "num" /\ field[i].n = v

DateMatches(expr, day) ==
    /\ Allows(expr[3], 1, Civil(day).day)
    /\ Allows(expr[4], 1, Civil(day).month)
    /\ Allows(expr[5], 0, (day + 4) % 7)

\* x is the minute of the day, counted from 00:00
TimeMatches(expr, x) == Allows(expr[1], 0, x % 60) /\ Allows(expr[2], 0, x \div 60)

InstantMatches(expr, at) ==
    /\ at.ms % MsPerMinute = 0
    /\ DateMatches(expr, at.day)
    /\ TimeMatches(expr, at.ms \div MsPerMinute)

\* no whole minute strictly between the two instants matches the expression
NoMatchBetween(expr, after, before) ==
    \A d \in after.day..before.day :
        DateMatches(expr, d) =>
            \A x \in 0..(MinutesPerDay - 1) :
                (Before(after, Instant(d, x * MsPerMinute))
                    /\ Before(Instant(d, x * MsPerMinute), before))
                => ~TimeMatches(expr, x)

\* some day of the years ahead matches the expression
MatchesLater(expr, after) ==
    \E d \in (after.day + 1)..(after.day + HorizonYears * SearchDays) :
        DateMatches(expr, d)

\* C8: for every schedule and every time t, compute_next_run returns None or an
\* instant strictly after t.
C8_NextRunAfter ==
    Called =>
        \/ computed.result = None
        \/ computed.result.kind = "some" /\ Before(computed.after, computed.result.at)

NoMatchWithinSearch ==
    NoMatchBetween(computed.schedule.expr, computed.after,
                   PlusDays(computed.after, SearchDays))

EarliestMatch ==
    /\ computed.result.kind = "some"
    /\ Before(computed.after, computed.result.at)
    /\ InstantMatches(computed.schedule.expr, computed.result.at)
    /\ NoMatchBetween(computed.schedule.expr, computed.after, computed.result.at)

\* C10 as stated: for a well-formed Cron expression that some minute after t matches,
\* compute_next_run returns the earliest whole minute strictly after t that matches.
C10_AsStated ==
    (Called /\ computed.schedule.type = "cron" /\ WellFormed(computed.schedule.expr)
        /\ MatchesLater(computed.schedule.expr, computed.after))
    => EarliestMatch

\* C10: for a well-formed Cron expression, compute_next_run returns the earliest
\* whole minute strictly after t and before t + 366 days whose month, day of month,
\* day of week (0 = Sunday), hour and minute match the fields, and None when there
\* is no such minute.
C10_EarliestWithinSearch ==
    (Called /\ computed.schedule.type = "cron" /\ WellFormed(computed.schedule.expr))
    => IF computed.result = None
       THEN NoMatchWithinSearch
       ELSE /\ EarliestMatch
            /\ Before(computed.result.at, PlusDays(computed.after, SearchDays))

\* "*/5 * * * *" at 12:03:00 has given 12:05:00
C10_Witness ==
    /\ Called
    /\ computed.schedule = Cron(EveryFiveMinutes)
    /\ computed.after = Utc(2026, 2, 1, 12, 3, 0)
    /\ computed.result = Some(Utc(2026, 2, 1, 12, 5, 0))

-----------------------------------------------------------------------------
(* Properties of tick *)

\* the jobs of the list that have the id of the job
JobsOf(d) == {i \in 1..Len(jobs) : jobs[i].id = d.id}

-----------------------------------------------------------------------------
(* Properties of TaskStorage *)

\* the path of the last call has a ".." or leads out of the root
Escapes(path) ==
    LET full == IF path.abs THEN path.names ELSE StorageRoot \o path.names
    IN  \/ \E i \in 1..Len(path.names) : path.names[i] = ".."
        \/ ~StartsWith(Walk(full), StorageRoot)

\* C12: every write_file, read_file, list_files and delete_file call whose path
\* contains ".." or resolves outside the root fails with a path-escape error and
\* leaves the filesystem, inside and outside the root, unchanged.
C12_EscapesLeaveNoTrace ==
    (storage_op.op # "none" /\ Escapes(storage_op.path)) =>
        /\ storage_op.kind = "escape"
        /\ fs = storage_op.before

-----------------------------------------------------------------------------
(* Properties of the bot-management tools *)

\* the memory task of a name: its own file, and a line of INDEX.md linking to it
HasTask(mem, task) ==
    /\ TaskFile(task) \in mem.files
    /\ \E i \in 1..Len(mem.index) : LinkOf(mem.index[i]) = Some(TaskFile(task))

\* C18: after a successful assign_bot(name, bot_token, tasks) the config on disk has
\* a scoped-bot entry with that name, and every task of the call other than "*" has
\* its memory task (its tasks/<slug>.md and its INDEX.md line), whatever other
\* tasks INDEX.md listed.
C18_AssignCreatesTasks ==
    (bot_op.op = "assign_bot" /\ bot_op.ok) =>
        /\ \E i \in 1..Len(config) : config[i].name = bot_op.input.name
        /\ \A k \in 1..Len(bot_op.input.tasks) :
              bot_op.input.tasks[k] # "*" => HasTask(memory, bot_op.input.tasks[k])

-----------------------------------------------------------------------------
(* Properties of the daemon *)

\* C13: the update offset of each bot of a running daemon never decreases, whatever
\* update ids the frontend returns and in whatever order.
C13_OffsetMonotone ==
    [][serve'.launches = serve.launches =>
          \A i \in DOMAIN all_bots : all_bots'[i].offset >= all_bots[i].offset]_vars

\* the name of an assign_bot call is the manager's or that of a bot of the config
\* the call found
Collides(op) ==
    \/ op.input.name = "manager"
    \/ \E i \in 1..Len(op.config) : op.config[i].name = op.input.name

\* C14: the bots of the running daemon (the manager and the scoped bots of the
\* config) have pairwise distinct names and pairwise distinct chats_dir, and an
\* assign_bot whose name collides with an existing bot fails.
C14_BotsDistinct ==
    /\ \A i, j \in DOMAIN all_bots :
          i # j => /\ all_bots[i].name # all_bots[j].name
                   /\ all_bots[i].chats_dir # all_bots[j].chats_dir
    /\ (bot_op.op = "assign_bot" /\ Collides(bot_op)) => ~bot_op.ok

\* the conversations of the chat maps that are stand-ins
StandIns ==
    {<<i, c>> \in (DOMAIN all_bots) \X Chats :
        c \in DOMAIN all_bots[i].chat_states /\ all_bots[i].chat_states[c] = NewContext}

\* C15: a turn runs with the Conversation of its chat, taken out of the chat map,
\* and no other is out; between turns every Conversation is back in its map: the
\* turn for the next message of a chat finds what the turn before it left.
C15_TurnsInSequence ==
    /\ serve.pc = "turn" =>
          /\ StandIns = {<<serve.bot, serve.chat>>}
          /\ serve.context.at.persist_path =
                Some(<<all_bots[serve.bot].chats_dir, serve.chat>>)
    /\ (serve.pc # "turn" /\ serve.why # "panic") =>
          /\ StandIns = {}
          /\ \A i \in DOMAIN all_bots : \A c \in DOMAIN all_bots[i].chat_states :
                all_bots[i].chat_states[c].turns > 0

\* the second turn of one chat of one bot is in progress
C15_Witness ==
    /\ serve.pc = "turn"
    /\ serve.context.at.turns > 0
    /\ all_bots[serve.bot].offset = 5
    /\ serve.chat \in DOMAIN all_bots[serve.bot].chat_states

C17_RestartCodeDistinct ==
    serve.pc = "exited" =>
        /\ serve.why = "interrupt" => serve.exit_code = Some(0)
        /\ serve.why = "restart" => serve.exit_code # Some(0)

\* C21: a message whose sender is not in the non-empty allowed_users of the bot is
\* dropped silently: handle_message downloads nothing, sends no typing indicator
\* and no reply, makes no LLM call, records no cost and leaves the chat map and
\* the chat files as they were; a bot with an empty allowed_users takes up the
\* message of any sender.
C21_DroppedSilently ==
    [][(serve.pc = "updates" /\ serve'.updates # serve.updates
            /\ Head(serve.updates).message # None) =>
          LET msg == Head(serve.updates).message.at
              bot == all_bots[serve.bot]
              listed == \E i \in DOMAIN bot.allowed_users :
                            bot.allowed_users[i] = msg.from.at
          IN  /\ (msg.from # None /\ bot.allowed_users # <<>> /\ ~listed) =>
                    /\ serve'.handled = Untouched
                    /\ serve'.pc # "turn"
                    /\ all_bots'[serve.bot].chat_states = bot.chat_states
                    /\ chat_files' = chat_files
              /\ (msg.from # None /\ bot.allowed_users = <<>>
                      /\ msg.carries # "nothing") =>
                    /\ serve'.pc = "turn"
                    /\ serve'.handled.typing]_vars

\* the manager, which allows user 42 only, has dropped the photo of user 99
C21_Witness ==
    /\ serve.pc = "updates"
    /\ all_bots[1].allowed_users = <<42>>
    /\ all_bots[1].offset = 6
    /\ serve.handled = Untouched
    /\ 8 \notin DOMAIN all_bots[1].chat_states

RECURSIVE CharLen(_)
\* the number of characters of a string
CharLen(s) == IF s = <<>> THEN 0 ELSE s[1].n + CharLen(Tail(s))

RECURSIVE CharPrefix(_, _)
\* the first k characters of a string
CharPrefix(s, k) ==
    IF k = 0 \/ s = <<>> THEN <<>>
    ELSE IF k >= s[1].n THEN Cat(<<s[1]>>, CharPrefix(Tail(s), k - s[1].n))
    ELSE <<[s[1] EXCEPT !.n = k, !.lit = ""]>>

\* a reply cut to its first 4000 characters
CutToCharacters(reply) ==
    IF CharLen(reply) <= ReplyLimit THEN reply
    ELSE Cat(CharPrefix(reply, ReplyLimit), TruncationMarker)

\* C23: whatever the text of the turn, the reply handle_message sends is the text
\* itself when it has at most 4000 characters, and its first 4000 characters
\* followed by the truncation marker when it has more.
C23_CutAtCharacters ==
    serve.handled.result # None =>
        serve.handled.reply =
            Some(CutToCharacters(IF serve.handled.result.at = <<>> THEN NoResponse
                                 ELSE serve.handled.result.at))

\* C27: a cron tick never ends the main loop: whether the turn of a due job fails
\* or cron.save() fails after it, the daemon is back in its select.
C27_TickKeepsLoop ==
    [][(serve.pc = "cron" \/ (serve.pc = "loop" /\ serve'.ticks > serve.ticks)) =>
          serve'.pc \in {"cron", "loop"}]_vars

\* C28: a run of the daemon that an interrupt has reached ends by the interrupt
\* branch of the select: the cron state saved, exit code 0.
C28_InterruptEndsRun ==
    (serve.pc = "exited" /\ serve.interrupted) =>
        /\ serve.why = "interrupt"
        /\ serve.cron_saved
        /\ serve.exit_code = Some(0)

-----------------------------------------------------------------------------
(* Properties of the streaming client *)

\* C19: a send call whose first request gets 401 reads the credential again, once:
\* if its value changed the call sends exactly one more request, with headers of
\* the new credential; otherwise it fails as unauthorized.  No call sends more than
\* two requests.
C19_RefreshOncePerCall ==
    send_op.n > 0 =>
        /\ Len(send_op.requests) <= 2
        /\ send_op.first = 401 =>
              /\ send_op.reread
              /\ IF send_op.stored # None /\ send_op.stored.at # send_op.key
                 THEN /\ Len(send_op.requests) = 2
                      /\ send_op.requests[2] = Headers(send_op.stored.at)
                 ELSE /\ Len(send_op.requests) = 1
                      /\ send_op.outcome = "unauthorized"

\* the deltas of a block, in the order of their arrival, as one text
RECURSIVE Joined(_)
Joined(deltas) ==
    IF deltas = <<>> THEN ""
    ELSE Joined(SubSeq(deltas, 1, Len(deltas) - 1)) \o deltas[Len(deltas)].text

\* the ContentBlock the frames of a block describe
Described(sent, i) ==
    LET start == CHOOSE f \in {sent[k] : k \in 1..Len(sent)} :
                    f.event = "content_block_start" /\ f.index = i
        text == Joined(DeltasOf(sent, i))
    IN  IF start.block.type = "text" THEN [type |-> "text", text |-> text]
        ELSE IF start.block.type = "thinking"
        THEN [type |-> "thinking", thinking |-> text, signature |-> ""]
        ELSE [type |-> "tool_use", id |-> start.block.id, name |-> start.block.name,
              input |-> IF text = "{\"a\":1}" THEN [a |-> 1] ELSE <<>>]

\* every frame is of a type the client knows, and every block started is stopped
EachBlockWhole(sent) ==
    /\ \A k \in 1..Len(sent) : sent[k] # UnknownEvent
    /\ \A i \in 0..1 : Started(sent, i) => Stopped(sent, i)

\* C20: when every block of the stream gets its start, its deltas and its stop, the
\* reply holds one ContentBlock for each block index, in the order of the indices,
\* with the deltas of the block joined in the order of arrival; the input of a tool
\* call that is not JSON is the empty object.
C20_BlocksInIndexOrder ==
    (stream.state = "done" /\ EachBlockWhole(stream.sent)) =>
        stream.content =
            (IF Started(stream.sent, 0) THEN <<Described(stream.sent, 0)>> ELSE <<>>)
                \o (IF Started(stream.sent, 1) THEN <<Described(stream.sent, 1)>> ELSE <<>>)

-----------------------------------------------------------------------------
(* Properties of the credential resolution *)

\* a token with this expiry is not past it
Unexpired(expires, now_ms) == expires = None \/ now_ms <= expires.at

\* the token of the vendor CLI file, if the file holds one that has not expired
CliToken(a) ==
    IF a.claude.kind = "file" /\ a.claude.claude_ai_oauth # None
          /\ Unexpired(a.claude.claude_ai_oauth.at.expires_at, a.now_ms)
    THEN Some(a.claude.claude_ai_oauth.at.access_token)
    ELSE None

\* the token of the third-party profile, if it holds one that has not expired
ProfileToken(a) ==
    LET p == a.openclaw
    IN  IF p.kind = "file" /\ p.provider = "anthropic" /\ Unexpired(p.expires, a.now_ms)
        THEN IF p.profile_type = "token" THEN p.token
             ELSE IF p.profile_type = "oauth" THEN p.access
             ELSE None
        ELSE None

\* the key of credentials.toml, if it holds one
TomlKey(a) == IF a.toml.kind = "file" THEN a.toml.api_key ELSE None

\* the first hit in the order environment, vendor CLI, third-party profile, TOML
FirstHit(a) ==
    IF a.env # None THEN a.env
    ELSE IF CliToken(a) # None THEN CliToken(a)
    ELSE IF ProfileToken(a) # None THEN ProfileToken(a)
    ELSE TomlKey(a)

\* C22: the Anthropic credential is the first hit in the order environment
\* variable, vendor-CLI OAuth file, third-party OAuth profile, credentials TOML;
\* an OAuth token past its expiry is no hit.  Stated for sources that parse.
C22_FirstHitWins ==
    (auth.n > 0 /\ auth.claude.kind # "unparsable") =>
        auth.key = (IF FirstHit(auth) = None THEN Failed ELSE Found(FirstHit(auth).at))

-----------------------------------------------------------------------------
(* Properties of the state files *)

\* the activities that have read or changed their copy of cron-jobs.json and have
\* yet to write it
OnCronFile == {a \in {"daemon", "cli"} : shared[a].pc # "idle"}

\* the activities that have read config.toml and have yet to write it
OnConfigFile == {a \in {"dash", "tool"} : shared[a].pc # "idle"}

\* C24: at no time are two activities in the middle of a read-modify-write of the
\* same state file.
C24_OneWriterAtATime ==
    shared.on => Cardinality(OnCronFile) <= 1 /\ Cardinality(OnConfigFile) <= 1

-----------------------------------------------------------------------------
(* Properties of the sub-agent pool *)

\* C25: every record spawn has inserted is in the agents table, under its run id
\* and for its task, whatever spawn, completion, error or kill came after.
C25_RecordsStay ==
    orchestrator.on =>
        \A e \in orchestrator.inserted :
            /\ e[1] \in DOMAIN orchestrator.agents
            /\ orchestrator.agents[e[1]].task_id = e[2]

-----------------------------------------------------------------------------
(* Properties of the turn loop and the file of its conversation *)

\* C26: when run_turn has returned a result, the conversation as last written to
\* persist_path is the conversation in memory.
C26_SavedOnReturn ==
    (pc = "returned" /\ result.kind = "ok") =>
        disk = Snapshot(messages, total_input_tokens, total_output_tokens)

\* the ids of the ToolUse blocks of a content, in the order of the blocks
RECURSIVE UseIds(_)
UseIds(content) ==
    IF content = <<>> THEN <<>>
    ELSE IF content[1].type = "tool_use" THEN <<content[1].id>> \o UseIds(Tail(content))
    ELSE UseIds(Tail(content))

\* the index of the last assistant message, or 0
LastAssistant(msgs) ==
    IF \E i \in 1..Len(msgs) : msgs[i].role = "assistant"
    THEN CHOOSE i \in 1..Len(msgs) :
            /\ msgs[i].role = "assistant"
            /\ \A j \in (i + 1)..Len(msgs) : msgs[j].role # "assistant"
    ELSE 0

\* the messages after message k are user messages of one ToolResult block each
ResultsAfter(msgs, k) ==
    \A j \in (k + 1)..Len(msgs) :
        /\ msgs[j].role = "user"
        /\ Len(msgs[j].content) = 1
        /\ msgs[j].content[1].type = "tool_result"

\* the ids those results carry, in the order of the messages
ResultIds(msgs, k) == [j \in 1..(Len(msgs) - k) |-> msgs[k + j].content[1].tool_use_id]

\* the results after the last assistant message answer its ToolUse blocks in
\* their order, the calls in rest being still to run
InOrder(msgs, rest) ==
    LET k == LastAssistant(msgs)
    IN  /\ k > 0
        /\ ResultsAfter(msgs, k)
        /\ UseIds(msgs[k].content) = ResultIds(msgs, k) \o [i \in 1..Len(rest) |-> rest[i].id]

\* C29: within one iteration of run_turn the ToolResult messages are appended in
\* the order of the ToolUse blocks of the reply, each with the id of its call, and
\* all of them before the client is called again.
C29_ResultsInOrder ==
    /\ pc = "tools" => InOrder(messages, pending)
    /\ pc = "call" => pending = <<>>
    /\ (disk.messages # <<>>
          /\ disk.messages[Len(disk.messages)].content[1].type = "tool_result") =>
            InOrder(disk.messages, <<>>)

\* the client is called again after a round of two tool calls, whose results were
\* saved in the order of the calls
C29_Witness ==
    /\ pc = "call"
    /\ obs.calls >= 2
    /\ Len(disk.messages) >= 3
    /\ LET n == Len(disk.messages)
       IN  /\ disk.messages[n - 2].role = "assistant"
           /\ Len(UseIds(disk.messages[n - 2].content)) = 2
           /\ InOrder(disk.messages, <<>>)

\* C30: a context-size error of the client makes run_turn compact and call the
\* client again with turns as it was: the retry is not counted against max_turns.
C30_RetryNotCounted ==
    [][(pc = "call" /\ obs'.ctx_errors > obs.ctx_errors) =>
          (turns' = turns /\ pc' = "call")]_vars

\* C31: a context-size error that follows an earlier one of the same run_turn is
\* returned to the caller as an error, with no further compaction and retry.
C31_SingleRetry ==
    [][(pc = "call" /\ obs.ctx_errors >= 1 /\ obs'.replies = obs.replies) =>
          (pc' = "returned" /\ result' = Err /\ messages' = messages
             /\ obs'.ctx_errors = obs.ctx_errors)]_vars

\* C35: run_turn makes at most max_turns LLM calls and then ends, also when every
\* call fails with a context-size error or every reply holds a tool use.
\* Every step of a turn that does not end it either starts a further pass of
\* the loop, of which there are at most max_turns, or goes from the reply to
\* its tool round, or leaves fewer tool calls to run.
TurnAdvances ==
    pc \in {"call", "tools"} =>
        \/ pc' \in {"returned", "panicked"}
        \/ turns' > turns
        \/ turns' = turns /\ pc = "call" /\ pc' = "tools"
        \/ turns' = turns /\ pc = "tools" /\ pc' = "tools"
              /\ Len(pending') < Len(pending)

C35_TurnEnds ==
    /\ [](obs.calls <= max_turns /\ (pc \in {"call", "tools"} => turns <= max_turns))
    /\ [][TurnAdvances]_vars

\* a turn of max_turns = 2 calls, each answered with a context-size error, has ended
C35_Witness ==
    /\ max_turns = MaxTurnLimit
    /\ obs.calls = max_turns
    /\ obs.ctx_errors = max_turns
    /\ pc = "returned"
    /\ result.text = TurnLimitText

-----------------------------------------------------------------------------
(* Further properties of tick *)

\* the job was enabled with a next_run at or before now
WasDue(job) ==
    /\ job.enabled
    /\ job.next_run.kind = "some"
    /\ (job.next_run.at = now \/ Before(job.next_run.at, now))

WasNotDue(job) == ~WasDue(job)

\* the jobs of the list that the last tick() did not find due
Kept(js) ==
    LET ids == {last_tick.before[i].id : i \in {k \in 1..Len(last_tick.before) :
                                                    WasNotDue(last_tick.before[k])}}
    IN  SelectSeq(js, LAMBDA j : j.id \in ids)

\* a one-shot job that has run and has no next run
Spent(job) ==
    job.schedule.type = "at" /\ job.next_run = None /\ job.last_run # None

Unspent(job) == ~Spent(job)

\* the due list is the enabled jobs with next_run at or before now, in the order
\* of the list, and each of them that is still listed has last_run = now and
\* next_run = compute_next_run(schedule, now)
DueFired ==
    /\ last_tick.due = SelectSeq(last_tick.before, WasDue)
    /\ \A k \in 1..Len(last_tick.due) :
          \A i \in JobsOf(last_tick.due[k]) :
              /\ jobs[i].last_run = Some(now)
              /\ jobs[i].next_run = compute_next_run(last_tick.due[k].schedule, now)

C33_NoPastOneShot ==
    last_tick.fresh =>
        \A i \in 1..Len(jobs) :
            jobs[i].schedule.type = "at" => Before(now, jobs[i].schedule.at)

\* C36: over the ticks that follow the last add or update a one-shot job is
\* returned as due at most once, and one tick returns a job at most once, however
\* many periods of it have passed since the tick before.
C36_NoReplay ==
    /\ \A i, k \in 1..Len(last_tick.at_returns) :
          last_tick.at_returns[i] = last_tick.at_returns[k] => i = k
    /\ last_tick.fresh =>
          /\ Len(last_tick.due) <= Len(last_tick.before)
          /\ \A i, k \in 1..Len(last_tick.due) :
                last_tick.due[i].id = last_tick.due[k].id => i = k

\* a "*/5 * * * *" job was due a day before the tick, which returned it once, and a
\* tick before that had returned it too
C36_Witness ==
    /\ last_tick.fresh
    /\ last_tick.n = MaxTicks
    /\ Len(last_tick.due) = 1
    /\ last_tick.due[1].schedule = Cron(EveryFiveMinutes)
    /\ last_tick.due[1].last_run # None
    /\ MsBetween(now, last_tick.due[1].next_run.at) > MsPerDay - 10 * MsPerMinute

-----------------------------------------------------------------------------
(* Properties of the poll tick *)

\* C34: after e >= 1 consecutive erroneous poll rounds the daemon sleeps
\* min(2^e, 60) seconds before the next round, for every e; a round in which a
\* bot fails adds one to e and a round without error sets e to 0.
C34_BackoffCapped ==
    /\ poller.last.e >= 1 => poller.last.backoff = Some(Min(Pow2(poller.last.e), BackoffCap))
    /\ poller.rounds > 0 =>
          poller.consecutive_poll_errors =
              IF poller.last.failed # {} THEN poller.last.e + 1 ELSE 0

-----------------------------------------------------------------------------
(* Further properties of send_message *)

\* C37: send_message returns a reply only for a stream that carried no error
\* event and stopped every content block it started.
C37_NoPartialReply ==
    stream.state = "done" =>
        /\ \A k \in 1..Len(stream.sent) : stream.sent[k] # ErrorEvent
        /\ \A i \in 0..1 : Started(stream.sent, i) => Stopped(stream.sent, i)

-----------------------------------------------------------------------------
(* Further properties of the sub-agent pool *)

Terminal == {"Killed", "Complete", "Failed"}

\* no step changes a status that is terminal
StatusSettled ==
    \A run_id \in DOMAIN orchestrator.agents :
        orchestrator.agents[run_id].status \in Terminal =>
            /\ run_id \in DOMAIN orchestrator'.agents
            /\ orchestrator'.agents[run_id].status = orchestrator.agents[run_id].status

\* C38: a status of Killed, Complete or Failed is final: the Done or Error
\* message of a worker that arrives after kill() leaves the record Killed, and so
\* does every other step that is not a spawn.
C38_TerminalIsFinal ==
    [][(orchestrator.on /\ orchestrator'.n = orchestrator.n) => StatusSettled]_vars

-----------------------------------------------------------------------------
(* Further properties of the reflective tools *)

\* C39: an assign_bot call that fails leaves the config, INDEX.md and the task
\* files as they were and does not ask for a restart.
C39_FailureChangesNothing ==
    [][(bot_op'.n = bot_op.n + 1 /\ bot_op'.op = "assign_bot" /\ ~bot_op'.ok) =>
          /\ config' = config
          /\ memory' = memory
          /\ restart_requested' = restart_requested]_vars

-----------------------------------------------------------------------------
(* Properties of the daemon and the frontend *)

\* C40: an update is fed to handle_message at most once, the restart that its
\* handling asked for included.
C40_HandledOnce ==
    frontend.on => \A id \in 1..MaxUpdates : frontend.handled[id] <= 1

====
